---- MODULE Spec2Model ----
(***************************************************************************)
(* A model of the exostate state container: the store (src/store.ts), its  *)
(* listener registry and notification pass, transaction scopes             *)
(* (src/transaction.ts) and the composite view (combine.ts).               *)
(*                                                                         *)
(* Objects are records carrying a reference identity `ref`: Object.is on   *)
(* two objects is equality of the records, since a reducer always returns  *)
(* a freshly allocated object and nothing mutates an object in place.      *)
(***************************************************************************)
EXTENDS Integers, Sequences, FiniteSets, TLC

\* ------------------------------------------------------------------ bounds
MaxOps == 4        \* calls made in one run
MaxSubs == 3       \* subscriptions created on the stores in one run
MaxBatch == 2      \* apply calls made by one batch callback
MaxTxOps == 5      \* calls made in one run that opens a transaction scope
MaxPairs == 2      \* derived subscriptions made in one run, each with its twin
MaxHistOps == 5    \* calls made in one run on a store that has a history
HistoryLimit == 3  \* options.limit of createHistory
MaxVersion == 3    \* the highest version a serializer is created with
MaxDecodes == 2    \* a run calls decode by itself only among its first calls

\* ------------------------------------------------------------------ inputs
Stores == {"sa", "sb"}
Labels == {"init", "x"}
Deltas == {-1, 0, 1, 2}
SetCounts == {0, 1}
NoArg == 0

VARIABLES
  impl,       \* which createStore built the stores: "class" (StoreImpl) or "closure"
  current,    \* [Stores -> object]   the value cell
  version,    \* [Stores -> Nat]
  listeners,  \* [Stores -> Seq(subscription id)]  insertion-ordered listener collection
  subs,       \* Seq of subscription closures [store, sel, eq, prev, beh, arg]
  seen,       \* Seq, parallel to subs: the values each subscriber was invoked with
  nextRef,    \* allocator of object identities
  nops,       \* number of API calls made so far
  deltas,     \* the payloads of the update(addCount, d) calls of the property test
  cancelled,  \* the subscriptions whose unsubscribe handle was called outside a pass
  tx,         \* the transaction scope on store sa
  comb,       \* the composite view over sa and sb
  mw,         \* the middlewares wrapped around sa, what their hooks recorded
  promises,   \* the promises made by asynchronous effects and by then()
  hist,       \* the history made by createHistory(sa, options)
  persist,    \* the storage entry and the closure of persistLocal(sa, key, storage)
  ser,        \* the serializer made by createSerializer, the last raw text and decode
  last        \* the last API call: what it was, what it returned, its notification pass

vars == <<impl, current, version, listeners, subs, seen, nextRef, nops,
          deltas, cancelled, tx, comb, mw, promises, hist, persist, ser, last>>

\* ------------------------------------------------------------------ values
Obj(r, c, l) == [ref |-> r, count |-> c, label |-> l]

\* Selector<T, R>: s => s.count, s => s.label, x => x
Select(sel, o) ==
  CASE sel = "count" -> o.count
    [] sel = "label" -> o.label
    [] OTHER -> o

\* Equality<R>: Object.is, or a custom eq: one comparing the parity of two
\* counts, one comparing the sa slot of two aggregates of a composite view
Eq(eqm, a, b) ==
  CASE eqm = "parity" -> (a % 2) = (b % 2)
    [] eqm = "sameSa" -> a.members["sa"] = b.members["sa"]
    [] OTHER -> a = b

\* ---------------------------------------------------------------- reducers
\* Reducer<T, P> / Compute<T>, as the tests write them.  "boom" throws always,
\* "guard" throws when the value it is given has count >= 1.
Throws(r, o) ==
  \/ r.name = "boom"
  \/ r.name = "raise"
  \/ r.name = "guard" /\ o.count >= 1

ReduceCount(r, o) ==
  CASE r.name = "add" -> o.count + r.arg
    [] r.name = "double" -> o.count * 2
    [] OTHER -> o.count

ReduceLabel(r, o) ==
  IF r.name = "setLabel" THEN r.arg ELSE o.label

Add(d) == [name |-> "add", arg |-> d]
SetLabel(l) == [name |-> "setLabel", arg |-> l]
Double == [name |-> "double", arg |-> NoArg]
Boom == [name |-> "boom", arg |-> NoArg]
Guard == [name |-> "guard", arg |-> NoArg]

\* An Effect<T, P> that only looks at the snapshot it is given
Log == [name |-> "log", arg |-> NoArg]

\* An asynchronous Effect<T, P>: it returns a promise that a timer settles
Later == [name |-> "later", arg |-> NoArg]

\* A throw written directly in a batch callback, between its apply calls
Raise == [name |-> "raise", arg |-> NoArg]

\* The object a reducer returns: a fresh object, allocated at ref
ApplyReducer(r, o, ref) == Obj(ref, ReduceCount(r, o), ReduceLabel(r, o))

NoRet == Obj(-1, 0, "none")

\* ------------------------------------------------------------------- world
\* The program state as one record, so that the operations compose as the
\* calls of the code do.  `thrown` is an exception in flight; `passes` lists
\* the notification passes of the call being made: the listeners of the store
\* when the pass began and the listeners the pass invoked, in order.  In a
\* subscription closure `at` keeps the selection made at subscribe time and
\* `fire` the fireImmediately option it was made with.
World ==
  [impl |-> impl, current |-> current, version |-> version,
   listeners |-> listeners, subs |-> subs, seen |-> seen,
   nextRef |-> nextRef, comb |-> comb, mw |-> mw, promises |-> promises,
   hist |-> hist, persist |-> persist, ser |-> ser,
   thrown |-> FALSE, ret |-> NoRet, passes |-> <<>>]

Without(seq, id) == SelectSeq(seq, LAMBDA x : x # id)
Has(seq, id) == \E i \in 1..Len(seq) : seq[i] = id

\* ---------------------------------------------------------------- promises
\* A promise is pending, fulfilled or rejected; `value` is what it was
\* fulfilled with; `then` is the reaction registered on it by then(), `chained`
\* the promise that then() returned (0: then() was never called on it);
\* `root` tells the promises made by an effect from those made by then().
PromiseRef(p) == [promise |-> p]
IsPromise(v) == "promise" \in DOMAIN v
NoThen == [op |-> "none"]
Pending(root) ==
  [state |-> "pending", value |-> "none", then |-> NoThen, chained |-> 0,
   root |-> root]

\* new Promise(resolve => setTimeout(resolve, delay))
NewPromise(w) ==
  [w EXCEPT !.promises = Append(@, Pending(TRUE)),
            !.ret = PromiseRef(Len(w.promises) + 1)]

\* p.then(reaction): the reaction is registered on p and a new promise,
\* settled by the reaction's outcome, is returned
Then(w, p, reaction) ==
  LET d == Len(w.promises) + 1
  IN [w EXCEPT !.promises = Append([@ EXCEPT ![p].then = reaction,
                                             ![p].chained = d],
                                   Pending(FALSE)),
               !.ret = PromiseRef(d)]

\* -------------------------------------------------------------- middleware
\* The middlewares given to withMiddleware: a logging middleware pushes what
\* each hook it defines is given onto `calls`; the devtools middleware talks
\* to a memory connection, whose arrays are inits and events.
NoMw ==
  [list |-> <<>>, calls |-> <<>>, initialized |-> FALSE, inits |-> <<>>,
   events |-> <<>>]
Logger(b, a) == [kind |-> "log", before |-> b, after |-> a]
Devtools == [kind |-> "devtools", before |-> TRUE, after |-> TRUE]

\* The payload the wrapper puts in the context: next for set, the payload of
\* update and effect, none for compute and batch
Payload(op, arg) ==
  CASE op = "set" -> arg
    [] op = "update" \/ op = "effect" -> arg.arg
    [] OTHER -> NoArg

\* The context object the wrapper builds for a round of hooks on store s:
\* { store, version: store.version, snapshot: store.snapshot(), payload }
Ctx(w, s, payload) ==
  [version |-> w.version[s], snapshot |-> w.current[s], payload |-> payload]

\* devtoolsMiddleware.before
DevtoolsBefore(w, ctx) ==
  IF ~w.mw.initialized
  THEN [w EXCEPT !.mw.inits = Append(@, ctx.snapshot), !.mw.initialized = TRUE]
  ELSE w

\* (mutant) after reporting the operation without its version
DevtoolsAfterNoVersion(w, op, ctx) ==
  [w EXCEPT !.mw.events = Append(@, [op |-> op, payload |-> ctx.payload,
                                     state |-> ctx.snapshot, version |-> 0])]

\* devtoolsMiddleware.after: conn.send(op, payload, snapshot, { version, name })
DevtoolsAfter(w, op, ctx) ==
  [w EXCEPT !.mw.events = Append(@, [op |-> op, payload |-> ctx.payload,
                                     state |-> ctx.snapshot,
                                     version |-> ctx.version])]

\* m.before?.(op, ctx) / m.after?.(op, ctx) for the i-th middleware; a
\* logging hook records, beside what it is given, the subscriber invocations
\* made so far (`seen`) and the number of promises made so far (`made`).
Hook(w, i, when, op, ctx) ==
  LET m == w.mw.list[i]
  IN IF ~m[when] THEN w
     ELSE IF m.kind = "devtools"
     THEN (IF when = "before" THEN DevtoolsBefore(w, ctx)
           ELSE DevtoolsAfter(w, op, ctx))
     ELSE [w EXCEPT !.mw.calls =
             Append(@, [mw |-> i, when |-> when, op |-> op,
                        version |-> ctx.version, snapshot |-> ctx.snapshot,
                        payload |-> ctx.payload, seen |-> w.seen,
                        made |-> Len(w.promises)])]

\* for (const m of middlewares) m.before?.(op, ctx)
RECURSIVE CallBefore(_, _, _, _)
CallBefore(w, i, op, ctx) ==
  IF i > Len(w.mw.list) THEN w
  ELSE CallBefore(Hook(w, i, "before", op, ctx), i + 1, op, ctx)

\* (mutant) the after hooks called last middleware first
RECURSIVE CallAfterReversed(_, _, _, _)
CallAfterReversed(w, i, op, ctx) ==
  IF i > Len(w.mw.list) THEN w
  ELSE CallAfterReversed(Hook(w, Len(w.mw.list) + 1 - i, "after", op, ctx),
                         i + 1, op, ctx)

\* for (const m of middlewares) m.after?.(op, ctx)
RECURSIVE CallAfter(_, _, _, _)
CallAfter(w, i, op, ctx) ==
  IF i > Len(w.mw.list) THEN w
  ELSE CallAfter(Hook(w, i, "after", op, ctx), i + 1, op, ctx)

\* ----------------------------------------------------------------- history
\* createHistory(store, options) on store sa: items, idx (-1 when empty),
\* unsub (the subscription attach() made, 0 for null) and suppress.
NoHist == [made |-> FALSE]

\* ----------------------------------------------------------------- persist
\* What a storage holds under the key: nothing (getItem gives null), a text
\* that is no JSON, or the JSON text of an object's content.
NoEntry == [ok |-> FALSE, count |-> -1, label |-> "null"]
Garbage == [ok |-> FALSE, count |-> 0, label |-> "garbage"]

\* encode: JSON.stringify(snapshot), the text of the content, without identity
Encode(o) == [ok |-> TRUE, count |-> o.count, label |-> o.label]

\* decode: JSON.parse(raw) throws on a text that is no JSON and otherwise
\* makes a new object, allocated at ref
DecodeThrows(raw) == ~raw.ok
Decode(raw, ref) == Obj(ref, raw.count, raw.label)

\* persistLocal has not been called; the storage holds entry under the key
Storage(entry) ==
  [made |-> FALSE, entry |-> entry, detach |-> 0, suppress |-> FALSE,
   writes |-> 0]
NoPersist == Storage(NoEntry)

\* persistFs has not been called; the file at filePath holds entry (NoEntry:
\* there is no such file).  `pending` are the fs.writeFile calls started and
\* not yet completed, each the text it was given, in the order they were
\* started; `inOrder` notes that every write completed so far was the oldest
\* one pending.
File(entry) ==
  [made |-> FALSE, entry |-> entry, detach |-> 0, suppress |-> FALSE,
   writes |-> 0, pending |-> <<>>, inOrder |-> TRUE]

\* -------------------------------------------------------------- serializer
\* What JSON.parse makes of a raw text, as far as decode looks at it: whether
\* it is an object, its field v (a number or not) and its field data
\* (undefined or a value with or without a numeric count and a string label).
\* `trail` lists the migrations the data has been through.
NoV == [num |-> FALSE, n |-> 0]
Num(n) == [num |-> TRUE, n |-> n]
NoData ==
  [def |-> FALSE, hasCount |-> FALSE, count |-> 0, hasLabel |-> FALSE,
   label |-> "", trail |-> <<>>]
Data(hasCount, c, hasLabel, l) ==
  [def |-> TRUE, hasCount |-> hasCount, count |-> c, hasLabel |-> hasLabel,
   label |-> l, trail |-> <<>>]
Parsed(isObj, v, d) == [obj |-> isObj, v |-> v, data |-> d]

\* isVersioned(x): an object with typeof v === "number" and data defined
IsVersioned(x) == x.obj /\ x.v.num /\ x.data.def

\* validate: the isV2 of the tests, a numeric count and a string label
Validate(d) == d.def /\ d.hasCount /\ d.hasLabel

\* migrations[k](input): step 1 is the tests' { count: input.count, label: "" };
\* the other steps hand the data on; the strict step 1 throws "bad v1" on an
\* input without a numeric count
MigrationThrows(strict, k, d) == strict /\ k = 1 /\ ~d.hasCount
Migration(k, d) ==
  IF k = 1
  THEN [d EXCEPT !.hasLabel = TRUE, !.label = "", !.trail = Append(@, k)]
  ELSE [d EXCEPT !.trail = Append(@, k)]

\* No serializer; createSerializer(version, { validate, migrations }).  `out`
\* is what the last decode did: whether it threw, the data it had reached
\* (its return value when it did not throw) and the loop iterations it began.
NoOut == [thrown |-> FALSE, why |-> "none", data |-> NoData, iters |-> 0]
NoSerializer ==
  [made |-> FALSE, version |-> 0, migrations |-> {}, strict |-> FALSE,
   raw |-> Parsed(FALSE, NoV, NoData), out |-> NoOut]
CreateSerializer(target, table, strict) ==
  [NoSerializer EXCEPT !.made = TRUE, !.version = target,
                       !.migrations = table, !.strict = strict]

\* encode(snapshot): JSON.stringify({ v: version, data: snapshot })
SerializerEncode(s, o) ==
  Parsed(TRUE, Num(s.version), Data(TRUE, o.count, TRUE, o.label))

SerializerThrow(why, d, n) ==
  [thrown |-> TRUE, why |-> why, data |-> d, iters |-> n]
SerializerReturn(d, n) ==
  [thrown |-> FALSE, why |-> "none", data |-> d, iters |-> n]

\* (mutant) the loop running the steps it has without asking for every one
RECURSIVE MigrateSkipping(_, _, _, _)
MigrateSkipping(s, currVersion, d, n) ==
  IF currVersion < s.version
  THEN IF currVersion \notin s.migrations
       THEN MigrateSkipping(s, currVersion + 1, d, n + 1)
       ELSE IF MigrationThrows(s.strict, currVersion, d)
       THEN SerializerThrow("migration", d, n + 1)
       ELSE MigrateSkipping(s, currVersion + 1, Migration(currVersion, d), n + 1)
  ELSE SerializerReturn(d, n)

\* while (currVersion < version) { const step = migrations[currVersion];
\*   if (!step) throw ..; dataUnknown = step(dataUnknown); currVersion += 1 }
\* n counts the iterations begun.
RECURSIVE Migrate(_, _, _, _)
Migrate(s, currVersion, d, n) ==
  IF currVersion < s.version
  THEN IF currVersion \notin s.migrations
       THEN SerializerThrow("Missing migration", d, n + 1)
       ELSE IF MigrationThrows(s.strict, currVersion, d)
       THEN SerializerThrow("migration", d, n + 1)
       ELSE Migrate(s, currVersion + 1, Migration(currVersion, d), n + 1)
  ELSE SerializerReturn(d, n)

\* decode(raw), raw already parsed
SerializerDecode(s, x) ==
  IF ~IsVersioned(x) THEN SerializerThrow("Invalid payload", x.data, 0)
  ELSE IF x.v.n > s.version THEN SerializerThrow("Future version", x.data, 0)
  ELSE LET m == Migrate(s, x.v.n, x.data, 0)
       IN IF m.thrown THEN m
          ELSE IF ~Validate(m.data)
          THEN SerializerThrow("Validation failed", m.data, m.iters)
          ELSE m

\* The listener persistLocal subscribes:
\*   if (suppress) return; try { storage.setItem(key, encode(next)) } catch {}
PersistListener(w, next) ==
  IF w.persist.suppress THEN w
  ELSE [w EXCEPT !.persist.entry = Encode(next), !.persist.writes = @ + 1]

\* The listener persistFs subscribes:
\*   if (suppress) return
\*   fs.writeFile(filePath, encode(next), "utf8").catch(() => void 0)
\* The write is started and its promise is left to itself.
FsListener(w, next) ==
  IF w.persist.suppress THEN w
  ELSE [w EXCEPT !.persist.pending = Append(@, Encode(next)),
                 !.persist.writes = @ + 1]

\* One of the writes under way completes: the file holds its text.  Node runs
\* each writeFile as its own open, write and close on the thread pool and
\* orders nothing between two calls on one path, so any pending write may
\* be the next to complete.
WriteCompletes(w, i) ==
  [w EXCEPT !.persist.entry = w.persist.pending[i],
            !.persist.pending = SubSeq(@, 1, i - 1) \o SubSeq(@, i + 1, Len(@)),
            !.persist.inOrder = @ /\ i = 1]

\* (mutant) push keeping what lies after the pointer
PushKeepsRedo(w, state) ==
  LET h == w.hist
      pushed == Append(h.items, state)
      kept == IF Len(pushed) > h.limit THEN Tail(pushed) ELSE pushed
  IN [w EXCEPT !.hist.items = kept, !.hist.idx = Len(kept) - 1]

\* push(state): items.splice(idx + 1) when the pointer is not at the end,
\* items.push(state), items.shift() when over the limit, idx = length - 1
Push(w, state) ==
  LET h == w.hist
      cut == IF h.idx < Len(h.items) - 1 THEN SubSeq(h.items, 1, h.idx + 1)
             ELSE h.items
      pushed == Append(cut, state)
      kept == IF Len(pushed) > h.limit THEN Tail(pushed) ELSE pushed
  IN [w EXCEPT !.hist.items = kept, !.hist.idx = Len(kept) - 1]

CanUndo(h) == h.idx > 0
CanRedo(h) == h.idx >= 0 /\ h.idx < Len(h.items) - 1
\* The unsubscribe handle of subscription id: copy-on-write delete from the
\* Set (class), indexOf + splice on the array (closure).
\* (mutant) the copy is made and changed but never installed
UnsubscribeLost(w, id) == w

Unsubscribe(w, id) ==
  IF id <= Len(w.subs) /\ Has(w.listeners[w.subs[id].store], id)
  THEN [w EXCEPT !.listeners[w.subs[id].store] = Without(@, id)]
  ELSE w

\* ---------------------------------------------------------- composite view
\* The aggregate object `current` of combineStores: an object with its own
\* identity holding, per key, the member value last copied into it.
Aggregate(r, m) == [ref |-> r, members |-> m]

\* Object.keys(stores)
Keys == <<"sa", "sb">>

\* No composite view has been made
NoComb == [made |-> FALSE]

\* combineStores(stores): the aggregate is built from a snapshot of every
\* member; no member is subscribed to (childUnsubs = null, written <<>>).
\* subs and seen are the notify closures of the composite subscriptions and
\* what each subscriber was invoked with.
CombineStores(cur, r) ==
  [made |-> TRUE, current |-> Aggregate(r, [k \in Stores |-> cur[k]]),
   subscribers |-> <<>>, childUnsubs |-> <<>>, subs |-> <<>>, seen |-> <<>>]

RECURSIVE UnsubscribeEach(_, _, _)
UnsubscribeEach(w, ids, i) ==
  IF i > Len(ids) THEN w
  ELSE UnsubscribeEach(Unsubscribe(w, ids[i]), ids, i + 1)

\* detach(): every member listener is unsubscribed, childUnsubs = null
Detach(w) ==
  IF w.comb.childUnsubs = <<>> THEN w
  ELSE [UnsubscribeEach(w, w.comb.childUnsubs, 1) EXCEPT !.comb.childUnsubs = <<>>]

\* The unsubscribe handle of composite subscription cid: indexOf + splice on
\* the subscribers array, then detach when the array is empty.
CombUnsubscribe(w, cid) ==
  LET w1 == [w EXCEPT !.comb.subscribers = Without(@, cid)]
  IN IF Len(w1.comb.subscribers) = 0 THEN Detach(w1) ELSE w1

\* The subscriber callback of composite subscription cid: it records the
\* aggregate it is given and, by its kind, unsubscribes itself or calls the
\* unsubscribe handle of composite subscription c.arg.
CombSubscriber(w, cid, v) ==
  LET c == w.comb.subs[cid]
      w1 == [w EXCEPT !.comb.seen[cid] = Append(@, v)]
  IN CASE c.beh = "unsubSelf" -> CombUnsubscribe(w1, cid)
       [] c.beh = "unsubOther" -> CombUnsubscribe(w1, c.arg)
       [] OTHER -> w1

\* The notify closure of composite subscription cid
CombNotify(w, cid) ==
  LET c == w.comb.subs[cid]
      next == w.comb.current
  IN IF ~Eq(c.eq, c.prev, next)
     THEN CombSubscriber([w EXCEPT !.comb.subs[cid].prev = next], cid, next)
     ELSE w

\* notifyAll(): for..of over the one subscribers array, read afresh each step
RECURSIVE NotifyAll(_, _)
NotifyAll(w, i) ==
  IF i > Len(w.comb.subscribers) THEN w
  ELSE NotifyAll(CombNotify(w, w.comb.subscribers[i]), i + 1)

\* (mutant) the member listener writing the member's snapshot into the
\* aggregate it already has
MemberChangedInPlace(w, k) ==
  NotifyAll([w EXCEPT !.comb.current.members[k] = w.current[k]], 1)

\* The listener attach() subscribes to member k: a copy of the aggregate, a
\* new object, takes the member's snapshot and replaces the aggregate.
MemberChanged(w, k) ==
  LET next == Aggregate(w.nextRef,
                        [w.comb.current.members EXCEPT ![k] = w.current[k]])
      w1 == [w EXCEPT !.nextRef = @ + 1]
  IN IF w1.comb.current # next
     THEN NotifyAll([w1 EXCEPT !.comb.current = next], 1)
     ELSE w1

RECURSIVE Subscriber(_, _, _)
RECURSIVE Subscribe(_, _, _, _, _, _, _)
RECURSIVE StoreUpdate(_, _, _)

\* (mutant) subscribe paying no attention to options.fireImmediately
SubscribeNeverFires(w, s, sel, eqm, fire, beh, arg) ==
  LET id == Len(w.subs) + 1
      prev == Select(sel, w.current[s])
  IN [w EXCEPT !.subs = Append(@, [store |-> s, sel |-> sel, eq |-> eqm,
                                   prev |-> prev, at |-> prev, fire |-> fire,
                                   beh |-> beh, arg |-> arg]),
               !.seen = Append(@, <<>>),
               !.listeners[s] = Append(@, id)]

\* subscribe(selector, subscriber, options): the closure is created with prev,
\* the subscriber is fired at once when asked, then notify joins the listeners
\* (it does not when that first call throws: subscribe is left by the throw).
Subscribe(w, s, sel, eqm, fire, beh, arg) ==
  LET id == Len(w.subs) + 1
      prev == Select(sel, w.current[s])
      w1 == [w EXCEPT !.subs = Append(@, [store |-> s, sel |-> sel, eq |-> eqm,
                                          prev |-> prev, at |-> prev,
                                          fire |-> fire,
                                          beh |-> beh, arg |-> arg]),
                      !.seen = Append(@, <<>>)]
      w2 == IF fire THEN Subscriber(w1, id, prev) ELSE w1
  IN IF w2.thrown THEN w2 ELSE [w2 EXCEPT !.listeners[s] = Append(@, id)]

\* What the subscriber callback of subscription id does with the value v:
\* it records v, and then, by its kind, throws, unsubscribes itself, calls the
\* unsubscribe handle held in a variable that subscription c.arg fills (a
\* no-op while that subscription does not exist), or subscribes a further
\* listener; the listener of a composite view on a member store refreshes the
\* aggregate; the listener of an attached history records v unless suppress
\* is up; a "subFixer" subscriber subscribes a "fixup" subscriber with
\* fireImmediately; a "fixup" subscriber, given an odd count, calls
\* store.update(addCount, 1) from inside the pass.
Subscriber(w, id, v) ==
  LET c == w.subs[id]
      w1 == [w EXCEPT !.seen[id] = Append(@, v)]
  IN CASE c.beh = "unsubSelf" -> Unsubscribe(w1, id)
       [] c.beh = "unsubOther" -> Unsubscribe(w1, c.arg)
       [] c.beh = "member" -> MemberChanged(w1, c.store)
       [] c.beh = "fixup" ->
            IF v % 2 = 1 THEN StoreUpdate(w1, c.store, Add(1)) ELSE w1
       [] c.beh = "throw" -> [w1 EXCEPT !.thrown = TRUE]
       [] c.beh = "history" -> IF w1.hist.suppress THEN w1 ELSE Push(w1, v)
       [] c.beh = "persist" -> PersistListener(w1, v)
       [] c.beh = "persistFs" -> FsListener(w1, v)
       [] c.beh = "subFixer" ->
            IF Len(w1.subs) < MaxSubs
            THEN Subscribe(w1, c.store, "count", "is", TRUE, "fixup", NoArg)
            ELSE w1
       [] c.beh = "subNew" ->
            IF Len(w1.subs) < MaxSubs
            THEN Subscribe(w1, c.store, "count", "is", FALSE, "rec", NoArg)
            ELSE w1
       [] OTHER -> w1

\* attach(): one identity-selector listener per member, in key order
RECURSIVE AttachFrom(_, _)
AttachFrom(w, i) ==
  IF i > Len(Keys) THEN w
  ELSE LET w1 == Subscribe(w, Keys[i], "whole", "is", FALSE, "member", NoArg)
       IN AttachFrom([w1 EXCEPT !.comb.childUnsubs = Append(@, Len(w1.subs))],
                     i + 1)

Attach(w) == IF w.comb.childUnsubs # <<>> THEN w ELSE AttachFrom(w, 1)

\* combined.subscribe(subscriber, options)
CombSubscribe(w, eqm, fire, beh, arg) ==
  LET w0 == IF w.comb.childUnsubs = <<>> THEN Attach(w) ELSE w
      cid == Len(w0.comb.subs) + 1
      prev == w0.comb.current
      w1 == [w0 EXCEPT !.comb.subs = Append(@, [prev |-> prev, eq |-> eqm,
                                                 fire |-> fire,
                                                 beh |-> beh, arg |-> arg]),
                       !.comb.seen = Append(@, <<>>)]
      w2 == IF fire THEN CombSubscriber(w1, cid, prev) ELSE w1
  IN [w2 EXCEPT !.comb.subscribers = Append(@, cid)]

\* (mutant) notify forgetting to remember what it delivered
NotifyNoPrev(w, id, p) ==
  LET c == w.subs[id]
      next == Select(c.sel, w.current[c.store])
      w1 == [w EXCEPT !.passes[p].invoked = Append(@, id)]
  IN IF ~Eq(c.eq, c.prev, next) THEN Subscriber(w1, id, next) ELSE w1

\* (mutant) notify remembering what it delivered once the subscriber is back
NotifyPrevAfter(w, id, p) ==
  LET c == w.subs[id]
      next == Select(c.sel, w.current[c.store])
      w1 == [w EXCEPT !.passes[p].invoked = Append(@, id)]
  IN IF ~Eq(c.eq, c.prev, next)
     THEN [Subscriber(w1, id, next) EXCEPT !.subs[id].prev = next]
     ELSE w1

\* The notify closure of subscription id, called by pass p.
Notify(w, id, p) ==
  LET c == w.subs[id]
      next == Select(c.sel, w.current[c.store])
      w1 == [w EXCEPT !.passes[p].invoked = Append(@, id)]
  IN IF ~Eq(c.eq, c.prev, next)
     THEN Subscriber([w1 EXCEPT !.subs[id].prev = next], id, next)
     ELSE w1

\* (mutant) a pass that catches what a listener throws and goes on, the
\* exception thrown again when the pass is over
RECURSIVE NotifySnapshotAll(_, _, _, _)
NotifySnapshotAll(w, snap, i, p) ==
  IF i > Len(snap) THEN w
  ELSE LET w1 == Notify([w EXCEPT !.thrown = FALSE], snap[i], p)
       IN NotifySnapshotAll([w1 EXCEPT !.thrown = w.thrown \/ w1.thrown],
                            snap, i + 1, p)

\* StoreImpl.notifyListeners: for..of over the Set object that this.listeners
\* named when the loop began; copy-on-write never changes that object.
RECURSIVE NotifySnapshot(_, _, _, _)
NotifySnapshot(w, snap, i, p) ==
  IF i > Len(snap) \/ w.thrown THEN w
  ELSE NotifySnapshot(Notify(w, snap[i], p), snap, i + 1, p)

\* createStore (closure) notifyListeners: for..of over the one listeners
\* array, which push and splice change in place; the iterator reads
\* listeners[i] and listeners.length afresh at each step.
RECURSIVE NotifyLive(_, _, _, _)
NotifyLive(w, s, i, p) ==
  IF i > Len(w.listeners[s]) \/ w.thrown THEN w
  ELSE NotifyLive(Notify(w, w.listeners[s][i], p), s, i + 1, p)

NotifyListeners(w, s) ==
  LET p == Len(w.passes) + 1
      w1 == [w EXCEPT !.passes = Append(@, [store |-> s, snap |-> w.listeners[s],
                                            invoked |-> <<>>])]
  IN IF w.impl = "class"
     THEN NotifySnapshot(w1, w1.listeners[s], 1, p)
     ELSE NotifyLive(w1, s, 1, p)

\* ------------------------------------------------------------------- store
\* (mutant) the replacement with the version left alone
ReplaceNoVersion(w, s, next) ==
  LET w1 == [w EXCEPT !.current[s] = next]
      w2 == IF w1.impl = "closure" \/ Len(w1.listeners[s]) > 0
            THEN NotifyListeners(w1, s) ELSE w1
  IN IF w2.thrown THEN w2 ELSE [w2 EXCEPT !.ret = w2.current[s]]

\* (mutant) the replacement undone when the notification pass throws
ReplaceRollsBack(w, s, next) ==
  LET w1 == [w EXCEPT !.current[s] = next, !.version[s] = @ + 1]
      w2 == IF w1.impl = "closure" \/ Len(w1.listeners[s]) > 0
            THEN NotifyListeners(w1, s) ELSE w1
  IN IF w2.thrown
     THEN [w2 EXCEPT !.current[s] = w.current[s], !.version[s] = w.version[s]]
     ELSE [w2 EXCEPT !.ret = w2.current[s]]

\* The common tail of set/update/compute/batch:
\*   this.current = next; this.version += 1;
\*   if (this.listeners.size > 0) this.notifyListeners(); return this.current
\* (the closure createStore calls notifyListeners() whatever the size)
Replace(w, s, next) ==
  LET w1 == [w EXCEPT !.current[s] = next, !.version[s] = @ + 1]
      w2 == IF w1.impl = "closure" \/ Len(w1.listeners[s]) > 0
            THEN NotifyListeners(w1, s) ELSE w1
  IN IF w2.thrown THEN w2 ELSE [w2 EXCEPT !.ret = w2.current[s]]

StoreSet(w, s, next) == Replace(w, s, next)

\* read(): return this.current
StoreRead(w, s) == [w EXCEPT !.ret = w.current[s]]

\* (mutant) snapshot handing out a copy of the value
StoreSnapshotCopy(w, s) ==
  [w EXCEPT !.ret = [w.current[s] EXCEPT !.ref = w.nextRef], !.nextRef = @ + 1]

\* snapshot(): return this.current as DeepReadonly<T>
StoreSnapshot(w, s) == [w EXCEPT !.ret = w.current[s]]

\* effect(fn, payload): return fn(this.current, payload); fn returns nothing,
\* or the promise it has just made
StoreEffect(w, s, fn) ==
  IF Throws(fn, w.current[s]) THEN [w EXCEPT !.thrown = TRUE]
  ELSE IF fn.name = "later" THEN NewPromise(w)
  ELSE w

\* (mutant) update counting the call before the reducer has run
StoreUpdateEager(w, s, r) ==
  LET w0 == [w EXCEPT !.version[s] = @ + 1]
  IN IF Throws(r, w.current[s])
     THEN [w0 EXCEPT !.thrown = TRUE]
     ELSE Replace([w EXCEPT !.nextRef = @ + 1], s,
                  ApplyReducer(r, w.current[s], w.nextRef))

\* update(reducer, payload) and compute(fn): the reducer runs first
StoreUpdate(w, s, r) ==
  IF Throws(r, w.current[s])
  THEN [w EXCEPT !.thrown = TRUE]
  ELSE Replace([w EXCEPT !.nextRef = @ + 1], s,
               ApplyReducer(r, w.current[s], w.nextRef))

StoreCompute(w, s, fn) ==
  IF Throws(fn, w.current[s])
  THEN [w EXCEPT !.thrown = TRUE]
  ELSE Replace([w EXCEPT !.nextRef = @ + 1], s,
               ApplyReducer(fn, w.current[s], w.nextRef))

\* The batch callback cb, a sequence of steps, run against the applier from
\* step i on: the local `next` it leaves, and whether it threw.
RECURSIVE RunCallback(_, _, _, _)
RunCallback(cb, i, next, ref) ==
  IF i > Len(cb) THEN [thrown |-> FALSE, next |-> next, nextRef |-> ref]
  ELSE IF Throws(cb[i], next) THEN [thrown |-> TRUE, next |-> next, nextRef |-> ref]
  ELSE RunCallback(cb, i + 1, ApplyReducer(cb[i], next, ref), ref + 1)

\* (mutant) batch applying each step to the store as it comes
RECURSIVE BatchEachFrom(_, _, _, _)
BatchEachFrom(w, s, cb, i) ==
  IF i > Len(cb) \/ w.thrown THEN w
  ELSE BatchEachFrom(StoreUpdate(w, s, cb[i]), s, cb, i + 1)
StoreBatchEach(w, s, cb) == BatchEachFrom(w, s, cb, 1)

\* (mutant) batch committing in a finally block what the callback reached
StoreBatchFinally(w, s, cb) ==
  LET f == RunCallback(cb, 1, w.current[s], w.nextRef)
      w1 == Replace([w EXCEPT !.nextRef = f.nextRef], s, f.next)
  IN [w1 EXCEPT !.thrown = f.thrown]

StoreBatch(w, s, cb) ==
  LET f == RunCallback(cb, 1, w.current[s], w.nextRef)
  IN IF f.thrown
     THEN [w EXCEPT !.thrown = TRUE]
     ELSE Replace([w EXCEPT !.nextRef = f.nextRef], s, f.next)

\* A callback step that calls the store itself, store.update(r, payload),
\* where the other steps call the applier
Direct(r) == [name |-> "direct", arg |-> r]

\* The batch callback cb run from step i on against the world w: a direct
\* step is a whole store.update, with its version and its pass; an applier
\* step changes the local `next` only.
RECURSIVE RunCallbackOn(_, _, _, _, _)
RunCallbackOn(w, s, cb, i, next) ==
  IF i > Len(cb) \/ w.thrown THEN [w |-> w, next |-> next]
  ELSE IF cb[i].name = "direct"
  THEN RunCallbackOn(StoreUpdate(w, s, cb[i].arg), s, cb, i + 1, next)
  ELSE IF Throws(cb[i], next)
  THEN [w |-> [w EXCEPT !.thrown = TRUE], next |-> next]
  ELSE RunCallbackOn([w EXCEPT !.nextRef = @ + 1], s, cb, i + 1,
                     ApplyReducer(cb[i], next, w.nextRef))

\* (mutant) batch folding the applier calls over what the store holds when
\* the callback is over
StoreBatchDirectLate(w, s, cb) ==
  LET direct == RunCallbackOn(w, s, SelectSeq(cb, LAMBDA st : st.name = "direct"),
                              1, w.current[s])
      f == RunCallbackOn(direct.w, s, SelectSeq(cb, LAMBDA st : st.name # "direct"),
                         1, direct.w.current[s])
  IN IF f.w.thrown THEN f.w ELSE Replace(f.w, s, f.next)

\* batch(callback) with a callback that also calls the store:
\*   let next = this.current; apply(applier); this.current = next; ...
StoreBatchDirect(w, s, cb) ==
  LET f == RunCallbackOn(w, s, cb, 1, w.current[s])
  IN IF f.w.thrown THEN f.w ELSE Replace(f.w, s, f.next)

\* ---------------------------------------------------------- withMiddleware
\* The method of the wrapped store that op names, called with arg
StoreCall(w, s, op, arg) ==
  CASE op = "set" -> StoreSet(w, s, arg)
    [] op = "update" -> StoreUpdate(w, s, arg)
    [] op = "compute" -> StoreCompute(w, s, arg)
    [] op = "batch" -> StoreBatch(w, s, arg)
    [] op = "effect" -> StoreEffect(w, s, arg)
    [] op = "read" -> StoreRead(w, s)
    [] OTHER -> StoreSnapshot(w, s)

\* set, update, compute, batch and effect of the wrapper are all of one shape:
\*   callBefore(op, ctx); const out = store.op(..); callAfter(op, ctx'); return out
\* with, in effect, the after hooks put off by then() when out is a promise;
\* read and snapshot of the wrapper call the store's and nothing else.
\* Entered is the first statement, on the world w the wrapper is called in;
\* WithMiddleware is what follows the store's method, which has left w2.
Entered(w, s, op, arg) == CallBefore(w, 1, op, Ctx(w, s, Payload(op, arg)))

\* (mutant) a wrapper that calls the after hooks as soon as the store's method
\* has returned, whatever it returned
WithMiddlewareEager(w2, s, op, arg) ==
  IF w2.thrown THEN w2
  ELSE [CallAfter(w2, 1, op, Ctx(w2, s, Payload(op, arg))) EXCEPT !.ret = w2.ret]

WithMiddleware(w2, s, op, arg) ==
  IF w2.thrown THEN w2
  ELSE IF op = "effect" /\ IsPromise(w2.ret)
  THEN Then(w2, w2.ret.promise,
            [op |-> op, store |-> s, payload |-> Payload(op, arg)])
  ELSE [CallAfter(w2, 1, op, Ctx(w2, s, Payload(op, arg))) EXCEPT !.ret = w2.ret]

\* A timer settles the pending promise p of an effect, fulfilling it with v or
\* rejecting it, and the microtasks that follow run: a reaction registered by
\* the wrapper's then() runs the after hooks on fulfilment and the promise
\* then() returned is fulfilled with what the reaction returns, undefined; on
\* rejection the reaction is passed over and the rejection handed on.
SettlePromise(w, p, outcome, v) ==
  LET pr == w.promises[p]
      w1 == [w EXCEPT !.promises[p].state = outcome,
                      !.promises[p].value = (IF outcome = "fulfilled" THEN v ELSE "none")]
  IN IF pr.chained = 0 THEN w1
     ELSE IF outcome = "rejected"
     THEN [w1 EXCEPT !.promises[pr.chained].state = "rejected"]
     ELSE LET w2 == CallAfter(w1, 1, pr.then.op,
                              Ctx(w1, pr.then.store, pr.then.payload))
          IN [w2 EXCEPT !.promises[pr.chained].state = "fulfilled",
                        !.promises[pr.chained].value = "undefined"]

\* ---------------------------------------------------- history, on the store
\* record(): push(state ?? store.snapshot())
Record(w) == Push(w, StoreSnapshot(w, "sa").ret)

\* The common body of undo, redo and jumpTo once the new pointer i is known:
\*   idx = i; const state = items[idx]; suppress = true; store.set(state);
\*   suppress = false; return store.read()
\* (a throw of store.set leaves before suppress is reset)
MoveTo(w, i) ==
  LET w1 == [w EXCEPT !.hist.idx = i, !.hist.suppress = TRUE]
      w2 == StoreSet(w1, "sa", w.hist.items[i + 1])
  IN IF w2.thrown THEN w2
     ELSE [w2 EXCEPT !.hist.suppress = FALSE, !.ret = w2.current["sa"]]

\* (mutant) undo writing the store without raising suppress
UndoRecorded(w) ==
  IF ~CanUndo(w.hist) THEN [w EXCEPT !.ret = NoRet]
  ELSE LET w1 == [w EXCEPT !.hist.idx = @ - 1]
           w2 == StoreSet(w1, "sa", w.hist.items[w.hist.idx])
       IN [w2 EXCEPT !.ret = w2.current["sa"]]

\* (mutant) undo moving the pointer and leaving the store alone
UndoPointerOnly(w) ==
  IF ~CanUndo(w.hist) THEN [w EXCEPT !.ret = NoRet]
  ELSE [w EXCEPT !.hist.idx = @ - 1, !.ret = w.current["sa"]]

\* undo(): if (!canUndo()) return undefined; idx -= 1; ...
Undo(w) ==
  IF ~CanUndo(w.hist) THEN [w EXCEPT !.ret = NoRet]
  ELSE MoveTo(w, w.hist.idx - 1)

\* redo(): if (!canRedo()) return undefined; idx += 1; ...
Redo(w) ==
  IF ~CanRedo(w.hist) THEN [w EXCEPT !.ret = NoRet]
  ELSE MoveTo(w, w.hist.idx + 1)

\* jumpTo(index): if (index < 0 || index >= items.length) return undefined
JumpTo(w, index) ==
  IF index < 0 \/ index >= Len(w.hist.items) THEN [w EXCEPT !.ret = NoRet]
  ELSE MoveTo(w, index)

\* (mutant) clear emptying the entries and leaving the pointer
ClearKeepsPointer(w) == [w EXCEPT !.hist.items = <<>>]

\* clear(): items.splice(0); idx = -1
Clear(w) == [w EXCEPT !.hist.items = <<>>, !.hist.idx = -1]

\* attach(): if (unsub) return; unsub = store.subscribe(identity, listener)
HistoryAttach(w) ==
  IF w.hist.unsub # 0 THEN w
  ELSE LET w1 == Subscribe(w, "sa", "whole", "is", FALSE, "history", NoArg)
       IN [w1 EXCEPT !.hist.unsub = Len(w1.subs)]

\* detach(): if (unsub) { unsub(); unsub = null }
HistoryDetach(w) ==
  IF w.hist.unsub = 0 THEN w
  ELSE [Unsubscribe(w, w.hist.unsub) EXCEPT !.hist.unsub = 0]

\* createHistory(store, { limit, recordInitial }): api.record() unless
\* recordInitial is false
CreateHistory(w, limit, recordInitial) ==
  LET w1 == [w EXCEPT !.hist = [made |-> TRUE, limit |-> limit, items |-> <<>>,
                                idx |-> -1, unsub |-> 0, suppress |-> FALSE,
                                trail |-> <<>>]]
  IN IF recordInitial THEN Record(w1) ELSE w1

\* --------------------------------------------------------------------- ssr
\* dehydrate(store, serializer): serializer.encode(store.snapshot())
Dehydrate(w, s) ==
  [w EXCEPT !.ser.raw = SerializerEncode(w.ser, StoreSnapshot(w, s).ret)]

\* rehydrate(store, raw, serializer): store.set(serializer.decode(raw))
Rehydrate(w, s, x) ==
  LET out == SerializerDecode(w.ser, x)
      w1 == [w EXCEPT !.ser.out = out]
  IN IF out.thrown THEN [w1 EXCEPT !.thrown = TRUE]
     ELSE StoreSet([w1 EXCEPT !.nextRef = @ + 1], s,
                   Obj(w.nextRef, out.data.count, out.data.label))

\* ------------------------------------------------------------ persistLocal
\* persistLocal(store, key, storage, { loadInitial }):
\*   const raw = storage.getItem(key)
\*   if (raw != null) try { const initial = decode(raw); suppress = true;
\*     store.set(initial); suppress = false } catch {}
\*   detach = store.subscribe(identity, listener)
\* A throw of decode or of store.set is caught; the latter leaves suppress up.
PersistLocal(w, loadInitial) ==
  LET raw == w.persist.entry
      w0 == [w EXCEPT !.persist.made = TRUE]
      w1 == StoreSet([w0 EXCEPT !.persist.suppress = TRUE, !.nextRef = @ + 1],
                     "sa", Decode(raw, w0.nextRef))
      w2 == IF ~loadInitial \/ raw = NoEntry \/ DecodeThrows(raw) THEN w0
            ELSE IF w1.thrown THEN [w1 EXCEPT !.thrown = FALSE]
            ELSE [w1 EXCEPT !.persist.suppress = FALSE]
      w3 == Subscribe(w2, "sa", "whole", "is", FALSE, "persist", NoArg)
  IN [w3 EXCEPT !.persist.detach = Len(w3.subs), !.ret = NoRet]

\* detach: if (detach) { detach(); detach = null }
PersistDetach(w) ==
  IF w.persist.detach = 0 THEN w
  ELSE [Unsubscribe(w, w.persist.detach) EXCEPT !.persist.detach = 0]

\* --------------------------------------------------------------- persistFs
\* await persistFs(store, filePath, { loadInitial }), once its promise has
\* resolved:
\*   if (loadInitial !== false) try { const raw = await fs.readFile(filePath);
\*     const initial = decode(raw); suppress = true; store.set(initial);
\*     suppress = false } catch {}
\*   const unsub = store.subscribe(identity, listener)
\* readFile rejects when there is no file; that, a throw of decode and a throw
\* of store.set are caught.
PersistFs(w, loadInitial) ==
  LET raw == w.persist.entry
      w0 == [w EXCEPT !.persist.made = TRUE]
      w1 == StoreSet([w0 EXCEPT !.persist.suppress = TRUE, !.nextRef = @ + 1],
                     "sa", Decode(raw, w0.nextRef))
      w2 == IF ~loadInitial \/ raw = NoEntry \/ DecodeThrows(raw) THEN w0
            ELSE IF w1.thrown THEN [w1 EXCEPT !.thrown = FALSE]
            ELSE [w1 EXCEPT !.persist.suppress = FALSE]
      w3 == Subscribe(w2, "sa", "whole", "is", FALSE, "persistFs", NoArg)
  IN [w3 EXCEPT !.persist.detach = Len(w3.subs), !.ret = NoRet]

\* ----------------------------------------------------------------- derived
\* derive(store, selector) keeps nothing but the store and the selector.
\* read(): return selector(store.snapshot())
DerivedRead(w, s, sel) ==
  LET w1 == StoreSnapshot(w, s)
  IN [w1 EXCEPT !.ret = Select(sel, w1.ret)]

\* (mutant) subscribe leaving the options behind
DerivedSubscribeNoOptions(w, s, sel, eqm, fire, beh, arg) ==
  Subscribe(w, s, sel, "is", FALSE, beh, arg)

\* subscribe(subscriber, options):
\*   return store.subscribe(selector, subscriber, options)
DerivedSubscribe(w, s, sel, eqm, fire, beh, arg) ==
  Subscribe(w, s, sel, eqm, fire, beh, arg)

\* ------------------------------------------------------------- transaction
\* A scope is the pair of closure variables of beginTransaction, initial and
\* next; the record also counts, for the record, the staged calls, commits
\* and rollbacks made on it, notes what the store was when it began,
\* whether the store has been written directly since, and the steps staged
\* successfully since the scope began or was last rolled back.  Each operation takes
\* the world and the scope and returns both.
BeginTransaction(w) ==
  [begun |-> TRUE, initial |-> w.current["sa"], next |-> w.current["sa"],
   staged |-> 0, commits |-> 0, rollbacks |-> 0, touched |-> FALSE,
   steps |-> <<>>,
   atBegin |-> [current |-> w.current["sa"], version |-> w.version["sa"],
                seen |-> w.seen]]

\* (mutant) apply writing each staged value through to the store
TxApplyWritesThrough(w, t, r) ==
  IF Throws(r, t.next)
  THEN [w |-> [w EXCEPT !.thrown = TRUE], tx |-> [t EXCEPT !.staged = @ + 1]]
  ELSE LET next == ApplyReducer(r, t.next, w.nextRef)
       IN [w |-> StoreSet([w EXCEPT !.nextRef = @ + 1], "sa", next),
           tx |-> [t EXCEPT !.next = next, !.staged = @ + 1,
                            !.steps = Append(@, r)]]

\* apply(reducer, payload) and compute(fn)
TxApplyOp(w, t, r) ==
  IF Throws(r, t.next)
  THEN [w |-> [w EXCEPT !.thrown = TRUE], tx |-> [t EXCEPT !.staged = @ + 1]]
  ELSE LET next == ApplyReducer(r, t.next, w.nextRef)
       IN [w |-> [w EXCEPT !.nextRef = @ + 1, !.ret = next],
           tx |-> [t EXCEPT !.next = next, !.staged = @ + 1,
                            !.steps = Append(@, r)]]

\* A set(s) call as a staged step
SetTo(o) == [name |-> "set", arg |-> o]

\* (mutant) set handing its argument to the store as well
TxSetThrough(w, t, o) ==
  [w |-> StoreSet(w, "sa", o),
   tx |-> [t EXCEPT !.next = o, !.staged = @ + 1, !.steps = Append(@, SetTo(o))]]

\* set(s)
TxSetOp(w, t, o) ==
  [w |-> [w EXCEPT !.ret = o],
   tx |-> [t EXCEPT !.next = o, !.staged = @ + 1, !.steps = Append(@, SetTo(o))]]

\* read(): return next
TxReadOp(w, t) == [w |-> [w EXCEPT !.ret = t.next], tx |-> t]

\* (mutant) commit replaying onto the store a write for the baseline, then one
\* for the pending value
TxCommitTwice(w, t) ==
  LET w1 == StoreSet(StoreSet(w, "sa", t.initial), "sa", t.next)
  IN [w |-> [w1 EXCEPT !.ret = w1.current["sa"]],
      tx |-> [t EXCEPT !.commits = @ + 1]]

\* (mutant) commit refusing to write once the store no longer holds the
\* baseline
TxCommitChecked(w, t) ==
  IF w.current["sa"] # t.initial
  THEN [w |-> [w EXCEPT !.ret = w.current["sa"]],
        tx |-> [t EXCEPT !.commits = @ + 1]]
  ELSE LET w1 == StoreSet(w, "sa", t.next)
       IN [w |-> [w1 EXCEPT !.ret = w1.current["sa"]],
           tx |-> [t EXCEPT !.commits = @ + 1]]

\* commit(): store.set(next); return store.read()
TxCommitOp(w, t) ==
  LET w1 == StoreSet(w, "sa", t.next)
  IN [w |-> [w1 EXCEPT !.ret = w1.current["sa"]],
      tx |-> [t EXCEPT !.commits = @ + 1]]

\* (mutant) rollback resetting the scope to what the store holds now
TxRollbackToStore(w, t) ==
  [w |-> [w EXCEPT !.ret = w.current["sa"]],
   tx |-> [t EXCEPT !.next = w.current["sa"], !.rollbacks = @ + 1,
                    !.steps = <<>>]]

\* (mutant) rollback writing the baseline back into the store
TxRollbackRestores(w, t) ==
  [w |-> StoreSet(w, "sa", t.initial),
   tx |-> [t EXCEPT !.next = t.initial, !.rollbacks = @ + 1, !.steps = <<>>]]

\* rollback(): next = initial; return next
TxRollbackOp(w, t) ==
  [w |-> [w EXCEPT !.ret = t.initial],
   tx |-> [t EXCEPT !.next = t.initial, !.rollbacks = @ + 1, !.steps = <<>>]]

\* ----------------------------------------------------------------- actions
\* A history keeps, for the record, the calls made since it was created, each
\* with the value the store held and the pointer it had before the call
Trailed(h, op) ==
  IF h.made
  THEN [h EXCEPT !.trail = Append(@, [op |-> op, before |-> current["sa"],
                                      at |-> hist.idx])]
  ELSE h

\* One API call has been made and has left the world w.  A batch counts for
\* its own call and for each step of its callback.
Done(w, op, s, arg) ==
  /\ nops' = nops + 1 + (IF op = "batch" THEN Len(arg) ELSE 0)
  /\ impl' = w.impl
  /\ current' = w.current
  /\ version' = w.version
  /\ listeners' = w.listeners
  /\ subs' = w.subs
  /\ seen' = w.seen
  /\ nextRef' = w.nextRef
  /\ comb' = w.comb
  /\ mw' = w.mw
  /\ promises' = w.promises
  /\ hist' = Trailed(w.hist, op)
  /\ persist' = w.persist
  /\ ser' = w.ser
  /\ last' = [op |-> op, store |-> s, arg |-> arg, thrown |-> w.thrown,
              ret |-> w.ret, passes |-> w.passes]

\* The callbacks making at most n apply calls, as sequences of their steps
RECURSIVE CallbacksUpTo(_, _)
CallbacksUpTo(steps, n) ==
  IF n = 0 THEN {<<>>}
  ELSE LET shorter == CallbacksUpTo(steps, n - 1)
       IN shorter \cup {Append(cb, st) : cb \in shorter, st \in steps}

\* The inputs of the runs
AddReducers == {Add(1), Add(2)}
MutReducers == {Add(1), SetLabel("x"), Boom, Guard}
MutComputes == {Double, Boom}
BatchSteps == {Add(1), Double, Guard, Raise}
BatchCallbacks == CallbacksUpTo(BatchSteps, MaxBatch)

\* store.set(next), next a new object literal
Set(s) ==
  /\ nops < MaxOps
  /\ \E c \in SetCounts, l \in Labels :
       Done(StoreSet([World EXCEPT !.nextRef = @ + 1], s, Obj(nextRef, c, l)),
            "set", s, Obj(nextRef, c, l))
  /\ UNCHANGED <<deltas, cancelled, tx>>

\* store.set(store.read()): the object the store already holds
SetSame(s) ==
  /\ nops < MaxOps
  /\ Done(StoreSet(World, s, current[s]), "set", s, current[s])
  /\ UNCHANGED <<deltas, cancelled, tx>>

\* store.update(reducer, payload), the reducer drawn from rs
Update(s, rs) ==
  /\ nops < MaxOps
  /\ \E r \in rs : Done(StoreUpdate(World, s, r), "update", s, r)
  /\ UNCHANGED <<deltas, cancelled, tx>>

\* store.update(addCount, d) as the property test calls it, the payload kept
UpdateAdd ==
  /\ nops < MaxOps
  /\ \E d \in Deltas :
       /\ Done(StoreUpdate(World, "sa", Add(d)), "update", "sa", Add(d))
       /\ deltas' = Append(deltas, d)
  /\ UNCHANGED <<cancelled, tx>>

\* store.compute(fn)
Compute(s, fns) ==
  /\ nops < MaxOps
  /\ \E fn \in fns : Done(StoreCompute(World, s, fn), "compute", s, fn)
  /\ UNCHANGED <<deltas, cancelled, tx>>

\* store.batch(callback), the callback a sequence of steps drawn from cbs
Batch(s, cbs) ==
  /\ \E cb \in cbs :
       /\ nops + Len(cb) < MaxOps
       /\ Done(StoreBatch(World, s, cb), "batch", s, cb)
  /\ UNCHANGED <<deltas, cancelled, tx>>

\* store.batch(callback), the callback calling the applier and the store
BatchDirect(s, cbs) ==
  /\ \E cb \in cbs :
       /\ nops + Len(cb) < MaxOps
       /\ Done(StoreBatchDirect(World, s, cb), "batch", s, cb)
  /\ UNCHANGED <<deltas, cancelled, tx>>

\* store.read()
Read(s) ==
  /\ nops < MaxOps
  /\ Done(StoreRead(World, s), "read", s, NoArg)
  /\ UNCHANGED <<deltas, cancelled, tx>>

\* store.snapshot()
Snapshot(s) ==
  /\ nops < MaxOps
  /\ Done(StoreSnapshot(World, s), "snapshot", s, NoArg)
  /\ UNCHANGED <<deltas, cancelled, tx>>

\* store.effect(fn, payload)
Effects == {Log, Boom}
Effect(s, fns) ==
  /\ nops < MaxOps
  /\ \E fn \in fns : Done(StoreEffect(World, s, fn), "effect", s, fn)
  /\ UNCHANGED <<deltas, cancelled, tx>>

\* The subscriptions the runs make: [sel, eq, fire, beh]
Plain == [sel |-> "count", eq |-> "is", fire |-> FALSE, beh |-> "rec"]
Recorders ==
  {Plain, [Plain EXCEPT !.fire = TRUE], [Plain EXCEPT !.eq = "parity"],
   [Plain EXCEPT !.sel = "label"]}
Watchers == {Plain, [Plain EXCEPT !.sel = "label"]}
Actors ==
  {[Plain EXCEPT !.beh = b] : b \in {"unsubSelf", "unsubOther", "subNew"}}
AllProfiles == Recorders \cup Actors
Throwers ==
  {Plain, [Plain EXCEPT !.sel = "label"], [Plain EXCEPT !.beh = "throw"],
   [Plain EXCEPT !.beh = "throw", !.sel = "label"],
   [Plain EXCEPT !.beh = "throw", !.fire = TRUE]}
Fixers == {Plain, [Plain EXCEPT !.sel = "label"], [Plain EXCEPT !.beh = "fixup"]}

\* store.subscribe(selector, subscriber, options)
DoSubscribe(s, profiles) ==
  /\ nops < MaxOps
  /\ Len(subs) < MaxSubs
  /\ \E pr \in profiles, arg \in 0..MaxSubs :
       /\ (pr.beh = "unsubOther") <=> (arg # NoArg)
       /\ arg # Len(subs) + 1
       /\ Done(Subscribe(World, s, pr.sel, pr.eq, pr.fire, pr.beh, arg),
               "subscribe", s, Len(subs) + 1)
  /\ UNCHANGED <<deltas, cancelled, tx>>

\* the unsubscribe handle of subscription id, called outside any pass
DoUnsubscribe ==
  /\ nops < MaxOps
  /\ \E id \in 1..Len(subs) :
       /\ Done(Unsubscribe(World, id), "unsubscribe", subs[id].store, id)
       /\ cancelled' = cancelled \cup {id}
  /\ UNCHANGED <<deltas, tx>>

\* The composite subscriptions the runs make: [eq, fire, beh]
CombPlain == [eq |-> "is", fire |-> FALSE, beh |-> "rec"]
CombProfiles ==
  {CombPlain, [CombPlain EXCEPT !.fire = TRUE], [CombPlain EXCEPT !.eq = "sameSa"],
   [CombPlain EXCEPT !.beh = "unsubSelf"],
   [CombPlain EXCEPT !.beh = "unsubOther"],
   [CombPlain EXCEPT !.beh = "unsubOther", !.fire = TRUE]}

\* combined.subscribe(subscriber, options); a subscriber that unsubscribes
\* another names an earlier composite subscription
DoCombSubscribe ==
  /\ nops < MaxOps
  /\ \E pr \in CombProfiles, arg \in 0..MaxOps :
       /\ (pr.beh = "unsubOther") <=> (arg # NoArg)
       /\ arg <= Len(comb.subs)
       /\ Done(CombSubscribe(World, pr.eq, pr.fire, pr.beh, arg),
               "combined.subscribe", "sa", Len(comb.subs) + 1)
  /\ UNCHANGED <<deltas, cancelled, tx>>

\* the unsubscribe handle of composite subscription cid
DoCombUnsubscribe ==
  /\ nops < MaxOps
  /\ \E cid \in 1..Len(comb.subs) :
       Done(CombUnsubscribe(World, cid), "combined.unsubscribe", "sa", cid)
  /\ UNCHANGED <<deltas, cancelled, tx>>

\* The calls made through withMiddleware(sa, middlewares)
MwEffects == {Log, Boom, Later}
Outcomes == {"fulfilled", "rejected"}
Values == {"undefined", "data"}

WSet(s) ==
  /\ nops < MaxOps
  /\ \E c \in SetCounts, l \in Labels :
       LET next == Obj(nextRef, c, l)
           w1 == Entered([World EXCEPT !.nextRef = @ + 1], s, "set", next)
       IN Done(WithMiddleware(StoreSet(w1, s, next), s, "set", next),
               "set", s, next)
  /\ UNCHANGED <<deltas, cancelled, tx>>

WUpdate(s, rs) ==
  /\ nops < MaxOps
  /\ \E r \in rs :
       Done(WithMiddleware(StoreUpdate(Entered(World, s, "update", r), s, r),
                           s, "update", r),
            "update", s, r)
  /\ UNCHANGED <<deltas, cancelled, tx>>

WCompute(s, fns) ==
  /\ nops < MaxOps
  /\ \E fn \in fns :
       Done(WithMiddleware(StoreCompute(Entered(World, s, "compute", fn), s, fn),
                           s, "compute", fn),
            "compute", s, fn)
  /\ UNCHANGED <<deltas, cancelled, tx>>

WBatch(s, cbs) ==
  /\ \E cb \in cbs :
       /\ nops + Len(cb) < MaxOps
       /\ Done(WithMiddleware(StoreBatch(Entered(World, s, "batch", cb), s, cb),
                              s, "batch", cb),
               "batch", s, cb)
  /\ UNCHANGED <<deltas, cancelled, tx>>

WEffect(s, fns) ==
  /\ nops < MaxOps
  /\ \E fn \in fns :
       Done(WithMiddleware(StoreEffect(Entered(World, s, "effect", fn), s, fn),
                           s, "effect", fn),
            "effect", s, fn)
  /\ UNCHANGED <<deltas, cancelled, tx>>

WRead(s) ==
  /\ nops < MaxOps
  /\ Done(StoreRead(World, s), "read", s, NoArg)
  /\ UNCHANGED <<deltas, cancelled, tx>>

WSnapshot(s) ==
  /\ nops < MaxOps
  /\ Done(StoreSnapshot(World, s), "snapshot", s, NoArg)
  /\ UNCHANGED <<deltas, cancelled, tx>>

\* the timer of a pending effect promise fires
Settle ==
  /\ nops < MaxOps
  /\ \E p \in 1..Len(promises), o \in Outcomes, v \in Values :
       /\ promises[p].root /\ promises[p].state = "pending"
       /\ o = "rejected" => v = "undefined"
       /\ Done(SettlePromise(World, p, o, v), "settle", "sa", p)
  /\ UNCHANGED <<deltas, cancelled, tx>>

\* The calls made on the history of sa
HistReducers == {Add(1)}
JumpTargets == {-1, 0, 2}

HistoryCall(w, op, arg) ==
  /\ nops < MaxHistOps
  /\ Done(w, op, "sa", arg)
  /\ UNCHANGED <<deltas, cancelled, tx>>

HRecord == HistoryCall(Record(World), "history.record", NoArg)
HUndo == HistoryCall(Undo(World), "history.undo", NoArg)
HRedo == HistoryCall(Redo(World), "history.redo", NoArg)
HJumpTo == \E k \in JumpTargets : HistoryCall(JumpTo(World, k), "history.jumpTo", k)
HAttach == HistoryCall(HistoryAttach(World), "history.attach", NoArg)
HDetach == HistoryCall(HistoryDetach(World), "history.detach", NoArg)

\* store.update(reducer, payload) on the store that has the history
HUpdate ==
  \E r \in HistReducers : HistoryCall(StoreUpdate(World, "sa", r), "update", r)

Flags == {TRUE, FALSE}

\* The raw texts handed to decode: no object, or an object whose v is missing
\* or a number from below 0 to above the highest version, and whose data is
\* missing, a v1 state, a v2 state or a state without count
SerializerVs == {NoV} \cup {Num(n) : n \in -1..(MaxVersion + 1)}
SerializerDatas ==
  {NoData, Data(TRUE, 5, FALSE, ""), Data(TRUE, 5, TRUE, "a"),
   Data(FALSE, 0, TRUE, "a")}
Payloads ==
  {Parsed(FALSE, NoV, NoData)}
    \cup {Parsed(TRUE, v, d) : v \in SerializerVs, d \in SerializerDatas}

Legacies == {Parsed(TRUE, Num(1), Data(TRUE, 5, FALSE, ""))}

\* serializer.decode(raw)
SDecode ==
  /\ nops < MaxDecodes
  /\ \E x \in Payloads :
       LET out == SerializerDecode(ser, x)
       IN Done([World EXCEPT !.ser.out = out, !.thrown = out.thrown],
               "decode", "sa", x)
  /\ UNCHANGED <<deltas, cancelled, tx>>

\* const raw = dehydrate(sa, serializer)
SDehydrate ==
  /\ nops < MaxOps
  /\ Done(Dehydrate(World, "sa"), "dehydrate", "sa", NoArg)
  /\ UNCHANGED <<deltas, cancelled, tx>>

\* rehydrate(sa, raw, serializer), raw a legacy text or the text dehydrate gave
SRehydrate ==
  /\ nops < MaxOps
  /\ \E x \in Legacies \cup {ser.raw} :
       Done(Rehydrate(World, "sa", x), "rehydrate", "sa", x)
  /\ UNCHANGED <<deltas, cancelled, tx>>

\* persistLocal(sa, key, storage, { loadInitial }), called once in a run
PAttach ==
  /\ nops < MaxOps
  /\ ~persist.made
  /\ \E li \in Flags : Done(PersistLocal(World, li), "persist.attach", "sa", li)
  /\ UNCHANGED <<deltas, cancelled, tx>>

\* ctrl.detach()
PDetach ==
  /\ nops < MaxOps
  /\ persist.made
  /\ Done(PersistDetach(World), "persist.detach", "sa", NoArg)
  /\ UNCHANGED <<deltas, cancelled, tx>>

\* await persistFs(sa, file, { loadInitial }), called once in a run
FsAttach ==
  /\ nops < MaxOps
  /\ ~persist.made
  /\ \E li \in Flags : Done(PersistFs(World, li), "persistFs", "sa", li)
  /\ UNCHANGED <<deltas, cancelled, tx>>

\* the event loop settles one of the writes under way
FsWriteDone ==
  /\ \E i \in 1..Len(persist.pending) :
       Done(WriteCompletes(World, i), "fs.writeFile", "sa", i)
  /\ UNCHANGED <<deltas, cancelled, tx>>

\* derive(store, selector).read(), for the selectors of the runs
Selectors == {"count", "label"}
DeriveRead(s) ==
  /\ nops < MaxOps
  /\ \E sel \in Selectors : Done(DerivedRead(World, s, sel), "derived.read", s, sel)
  /\ UNCHANGED <<deltas, cancelled, tx>>

\* derived.subscribe(sub, opts) and then, for comparison, a second recording
\* subscriber given to store.subscribe(selector, sub2, opts): the derived
\* subscription has an odd id and its twin the next one.
DeriveSubscribe(s, profiles) ==
  /\ nops < MaxOps
  /\ Len(subs) < 2 * MaxPairs
  /\ \E pr \in profiles :
       LET w1 == DerivedSubscribe(World, s, pr.sel, pr.eq, pr.fire, pr.beh, NoArg)
       IN Done(Subscribe(w1, s, pr.sel, pr.eq, pr.fire, pr.beh, NoArg),
               "derived.subscribe", s, Len(subs) + 1)
  /\ UNCHANGED <<deltas, cancelled, tx>>

\* the unsubscribe handles of a derived subscription and of its twin
DeriveUnsubscribe ==
  /\ nops < MaxOps
  /\ \E k \in 1..MaxPairs :
       /\ 2 * k <= Len(subs)
       /\ Done(Unsubscribe(Unsubscribe(World, 2 * k - 1), 2 * k),
               "derived.unsubscribe", subs[2 * k].store, 2 * k - 1)
       /\ cancelled' = cancelled \cup ((2 * k - 1)..(2 * k))
  /\ UNCHANGED <<deltas, tx>>

TxReducers == {Add(1), Guard}
TxComputes == {Double}

\* beginTransaction(store)
TxBegin ==
  /\ nops < MaxTxOps
  /\ ~tx.begun
  /\ tx' = BeginTransaction(World)
  /\ Done(World, "tx.begin", "sa", NoArg)
  /\ UNCHANGED <<deltas, cancelled>>

\* One call on the scope has left the world and the scope r
TxDone(r, op, arg) ==
  /\ tx' = r.tx
  /\ Done(r.w, op, "sa", arg)
  /\ UNCHANGED <<deltas, cancelled>>

TxApply ==
  /\ nops < MaxTxOps /\ tx.begun
  /\ \E r \in TxReducers : TxDone(TxApplyOp(World, tx, r), "tx.apply", r)

TxCompute ==
  /\ nops < MaxTxOps /\ tx.begun
  /\ \E fn \in TxComputes : TxDone(TxApplyOp(World, tx, fn), "tx.compute", fn)

TxSet ==
  /\ nops < MaxTxOps /\ tx.begun
  /\ TxDone(TxSetOp([World EXCEPT !.nextRef = @ + 1], tx, Obj(nextRef, 1, "x")),
            "tx.set", Obj(nextRef, 1, "x"))

TxRead ==
  /\ nops < MaxTxOps /\ tx.begun
  /\ TxDone(TxReadOp(World, tx), "tx.read", NoArg)

TxCommit ==
  /\ nops < MaxTxOps /\ tx.begun
  /\ TxDone(TxCommitOp(World, tx), "tx.commit", NoArg)

TxRollback ==
  /\ nops < MaxTxOps /\ tx.begun
  /\ TxDone(TxRollbackOp(World, tx), "tx.rollback", NoArg)

\* store.set(next) made directly on the store, with or without an open scope
DirectSet ==
  /\ nops < MaxTxOps
  /\ Done(StoreSet([World EXCEPT !.nextRef = @ + 1], "sa", Obj(nextRef, 0, "x")),
          "set", "sa", Obj(nextRef, 0, "x"))
  /\ tx' = IF tx.begun THEN [tx EXCEPT !.touched = TRUE] ELSE tx
  /\ UNCHANGED <<deltas, cancelled>>

\* ---------------------------------------------------------- specifications
NoTx == [begun |-> FALSE]

\* Two scopes on one store, as in the nested transactions of the README: an
\* outer one and an inner one, each begun by its own beginTransaction(store)
Scopes == {"outer", "inner"}
NoScopes == [k \in Scopes |-> NoTx]
ScopeReducers == {Add(1), SetLabel("x")}

\* One call on the scope k has left the world and the scope r
ScopeDone(k, r, op) ==
  /\ tx' = [tx EXCEPT ![k] = r.tx]
  /\ Done(r.w, op, "sa", k)
  /\ UNCHANGED <<deltas, cancelled>>

\* const outerTx = beginTransaction(store); const innerTx = beginTransaction(store)
ScopeBegin ==
  /\ nops < MaxTxOps
  /\ \E k \in Scopes :
       /\ ~tx[k].begun
       /\ ScopeDone(k, [w |-> World, tx |-> BeginTransaction(World)], "tx.begin")

ScopeApply ==
  /\ nops < MaxTxOps
  /\ \E k \in Scopes, r \in ScopeReducers :
       /\ tx[k].begun
       /\ ScopeDone(k, TxApplyOp(World, tx[k], r), "tx.apply")

ScopeCommit ==
  /\ nops < MaxTxOps
  /\ \E k \in Scopes :
       /\ tx[k].begun
       /\ ScopeDone(k, TxCommitOp(World, tx[k]), "tx.commit")

ScopeRollback ==
  /\ nops < MaxTxOps
  /\ \E k \in Scopes :
       /\ tx[k].begun
       /\ ScopeDone(k, TxRollbackOp(World, tx[k]), "tx.rollback")

\* No middleware is wrapped around a store
NothingAttached ==
  mw = NoMw /\ hist = NoHist /\ persist = NoPersist /\ ser = NoSerializer

\* createStore(initial) for sa and sb, nothing subscribed
InitStores(i) ==
  /\ impl = i
  /\ current = [s \in Stores |-> Obj(IF s = "sa" THEN 0 ELSE 1, 0, "init")]
  /\ version = [s \in Stores |-> 0]
  /\ listeners = [s \in Stores |-> <<>>]
  /\ subs = <<>>
  /\ seen = <<>>
  /\ nops = 0
  /\ deltas = <<>>
  /\ cancelled = {}
  /\ tx = NoTx
  /\ promises = <<>>
  /\ last = [op |-> "init", store |-> "sa", arg |-> NoArg, thrown |-> FALSE,
             ret |-> NoRet, passes |-> <<>>]

InitWith(i) ==
  /\ comb = NoComb
  /\ NothingAttached
  /\ nextRef = 2
  /\ InitStores(i)

\* Two fresh stores and combineStores({sa, sb}) over them
InitCombine ==
  /\ InitStores("class")
  /\ NothingAttached
  /\ comb = CombineStores(current, 2)
  /\ nextRef = 3

Init == InitWith("class")

\* One store and its listener registry: subscribers of every kind, and the
\* mutations that make them fire.
Next ==
  \/ Set("sa")
  \/ Update("sa", AddReducers)
  \/ DoSubscribe("sa", AllProfiles)
  \/ DoUnsubscribe

Spec == Init /\ [][Next]_vars

\* One store and its mutation entry points, with reducers that may throw.
NextMut ==
  \/ Update("sa", MutReducers)
  \/ Compute("sa", MutComputes)
  \/ Batch("sa", BatchCallbacks)
  \/ DoSubscribe("sa", Watchers)

SpecMut == Init /\ [][NextMut]_vars

\* One store and its whole interface: the mutation entry points and the calls
\* that only look.
NextApi ==
  \/ Set("sa")
  \/ Update("sa", MutReducers)
  \/ Compute("sa", MutComputes)
  \/ Batch("sa", BatchCallbacks)
  \/ Read("sa")
  \/ Snapshot("sa")
  \/ Effect("sa", Effects)
  \/ DoSubscribe("sa", Recorders)
  \/ DoUnsubscribe

SpecApi == Init /\ [][NextApi]_vars

\* One store with subscribers that may throw.
NextThrow ==
  \/ Set("sa")
  \/ Update("sa", AddReducers)
  \/ DoSubscribe("sa", Throwers)
  \/ DoUnsubscribe

SpecThrow == Init /\ [][NextThrow]_vars

\* One store seen through derive(store, selector): derived reads and derived
\* subscriptions between the store's mutations.
DeriveReducers == {Add(1), Add(2), SetLabel("x"), Guard}
NextDerive ==
  \/ Set("sa")
  \/ Update("sa", DeriveReducers)
  \/ Batch("sa", BatchCallbacks)
  \/ DeriveRead("sa")
  \/ DeriveSubscribe("sa", Recorders)
  \/ DeriveUnsubscribe

SpecDerive == Init /\ [][NextDerive]_vars

\* One store behind withMiddleware(store, middlewares): every call goes
\* through the wrapper (subscribe is the store's own, bound to it).
MwReducers == {Add(1), Boom}
MwComputes == {Double, Boom}
MwCallbacks == {<<Add(1), Double>>, <<Add(1), Raise>>}
MwSubs == {Plain, [Plain EXCEPT !.beh = "fixup"]}
MiddlewareArrays ==
  {<<Logger(TRUE, TRUE), Logger(TRUE, TRUE)>>,
   <<Logger(TRUE, FALSE), Devtools, Logger(TRUE, TRUE)>>,
   <<Devtools, Logger(FALSE, TRUE)>>}

InitMw ==
  /\ InitStores("class")
  /\ comb = NoComb
  /\ nextRef = 2
  /\ hist = NoHist /\ persist = NoPersist /\ ser = NoSerializer
  /\ \E l \in MiddlewareArrays : mw = [NoMw EXCEPT !.list = l]

NextMw ==
  \/ WSet("sa")
  \/ WUpdate("sa", MwReducers)
  \/ WCompute("sa", MwComputes)
  \/ WBatch("sa", MwCallbacks)
  \/ WEffect("sa", MwEffects)
  \/ WRead("sa")
  \/ WSnapshot("sa")
  \/ DoSubscribe("sa", MwSubs)
  \/ Settle

SpecMw == InitMw /\ [][NextMw]_vars

\* One store and a history on it, made with or without the initial record:
\*   const store = createStore(..); const history = createHistory(store, opts)
\* and, as the tests of the attached mode begin, with history.attach() called
\* or not.
InitHistory ==
  /\ impl = "class"
  /\ current = [s \in Stores |-> Obj(IF s = "sa" THEN 0 ELSE 1, 0, "init")]
  /\ version = [s \in Stores |-> 0]
  /\ nops = 0 /\ deltas = <<>> /\ cancelled = {} /\ tx = NoTx
  /\ promises = <<>> /\ comb = NoComb /\ mw = NoMw /\ persist = NoPersist
  /\ ser = NoSerializer
  /\ nextRef = 2
  /\ last = [op |-> "init", store |-> "sa", arg |-> NoArg, thrown |-> FALSE,
             ret |-> NoRet, passes |-> <<>>]
  /\ \E ri \in Flags, att \in Flags :
       LET w0 == [impl |-> impl, current |-> current, version |-> version,
                  listeners |-> [s \in Stores |-> <<>>], subs |-> <<>>,
                  seen |-> <<>>, nextRef |-> nextRef, comb |-> comb,
                  mw |-> mw, promises |-> promises, hist |-> NoHist,
                  persist |-> persist, ser |-> ser, thrown |-> FALSE,
                  ret |-> NoRet,
                  passes |-> <<>>]
           w1 == CreateHistory(w0, HistoryLimit, ri)
           w2 == IF att THEN HistoryAttach(w1) ELSE w1
       IN /\ hist = w2.hist
          /\ listeners = w2.listeners
          /\ subs = w2.subs
          /\ seen = w2.seen

NextHistory ==
  \/ HUpdate
  \/ HRecord
  \/ HUndo
  \/ HRedo
  \/ HJumpTo
  \/ HAttach
  \/ HDetach

SpecHistory == InitHistory /\ [][NextHistory]_vars

\* One store and a history on it with any limit from 1 up, made with or
\* without the initial record, attached or not; the store may have
\* subscribers of its own on the label, some of which throw; every call of
\* the history, clear included, and updates of the count and of the label.
HistoryLimits == 1..HistoryLimit
PointerReducers == {Add(1), SetLabel("x")}
PointerSubs == {[Plain EXCEPT !.sel = "label", !.beh = "throw"]}

InitPointer ==
  /\ impl = "class"
  /\ current = [s \in Stores |-> Obj(IF s = "sa" THEN 0 ELSE 1, 0, "init")]
  /\ version = [s \in Stores |-> 0]
  /\ nops = 0 /\ deltas = <<>> /\ cancelled = {} /\ tx = NoTx
  /\ promises = <<>> /\ comb = NoComb /\ mw = NoMw /\ persist = NoPersist
  /\ ser = NoSerializer
  /\ nextRef = 2
  /\ last = [op |-> "init", store |-> "sa", arg |-> NoArg, thrown |-> FALSE,
             ret |-> NoRet, passes |-> <<>>]
  /\ \E limit \in HistoryLimits, ri \in Flags, att \in Flags :
       LET w0 == [impl |-> impl, current |-> current, version |-> version,
                  listeners |-> [s \in Stores |-> <<>>], subs |-> <<>>,
                  seen |-> <<>>, nextRef |-> nextRef, comb |-> comb,
                  mw |-> mw, promises |-> promises, hist |-> NoHist,
                  persist |-> persist, ser |-> ser, thrown |-> FALSE,
                  ret |-> NoRet,
                  passes |-> <<>>]
           w1 == CreateHistory(w0, limit, ri)
           w2 == IF att THEN HistoryAttach(w1) ELSE w1
       IN /\ hist = w2.hist
          /\ listeners = w2.listeners
          /\ subs = w2.subs
          /\ seen = w2.seen

PointerCall(w, op, arg) ==
  /\ nops < MaxOps
  /\ Done(w, op, "sa", arg)
  /\ UNCHANGED <<deltas, cancelled, tx>>

PUpdate ==
  \E r \in PointerReducers : PointerCall(StoreUpdate(World, "sa", r), "update", r)
PRecord == PointerCall(Record(World), "history.record", NoArg)
PUndo == PointerCall(Undo(World), "history.undo", NoArg)
PRedo == PointerCall(Redo(World), "history.redo", NoArg)
PJumpTo == \E k \in JumpTargets : PointerCall(JumpTo(World, k), "history.jumpTo", k)
PClear == PointerCall(Clear(World), "history.clear", NoArg)

NextPointer ==
  \/ PUpdate
  \/ PRecord
  \/ PUndo
  \/ PRedo
  \/ PJumpTo
  \/ PClear
  \/ DoSubscribe("sa", PointerSubs)

SpecPointer == InitPointer /\ [][NextPointer]_vars

\* One store, a storage that holds nothing, a text that is no JSON or a
\* seed, and persistLocal on them; the store may have subscribers of its
\* own, some of which throw.
Seed == [ok |-> TRUE, count |-> 10, label |-> "seed"]
Entries == {NoEntry, Garbage, Seed}
PersistReducers == {Add(1), SetLabel("x")}
PersistSubs == {[Plain EXCEPT !.sel = "label"],
                [Plain EXCEPT !.sel = "label", !.beh = "throw"]}

InitPersist ==
  /\ InitStores("class")
  /\ comb = NoComb /\ mw = NoMw /\ hist = NoHist /\ ser = NoSerializer
  /\ nextRef = 2
  /\ \E e \in Entries : persist = Storage(e)

NextPersist ==
  \/ PAttach
  \/ PDetach
  \/ Update("sa", PersistReducers)
  \/ SetSame("sa")
  \/ DoSubscribe("sa", PersistSubs)

SpecPersist == InitPersist /\ [][NextPersist]_vars

\* One store, a file that does not exist or holds a text that is no JSON or a
\* seed, and persistFs on them: updates of the store, each starting a write,
\* and the writes completing.
InitFs ==
  /\ InitStores("class")
  /\ comb = NoComb /\ mw = NoMw /\ hist = NoHist /\ ser = NoSerializer
  /\ nextRef = 2
  /\ \E e \in Entries : persist = File(e)

NextFs ==
  \/ FsAttach
  \/ Update("sa", PersistReducers)
  \/ FsWriteDone

SpecFs == InitFs /\ [][NextFs]_vars

\* One store and a serializer made for a version from 1 up, with any table
\* of migrations, the step 1 strict or not
SerializerVersions == 1..MaxVersion
MigrationTables == SUBSET (0..(MaxVersion - 1))
SerializerReducers == {Add(1)}

InitSerializer ==
  /\ InitStores("class")
  /\ comb = NoComb /\ mw = NoMw /\ hist = NoHist /\ persist = NoPersist
  /\ nextRef = 2
  /\ \E v \in SerializerVersions, m \in MigrationTables, strict \in Flags :
       ser = CreateSerializer(v, m, strict)

NextSerializer ==
  \/ SDecode
  \/ SDehydrate
  \/ SRehydrate
  \/ Update("sa", SerializerReducers)

SpecSerializer == InitSerializer /\ [][NextSerializer]_vars

\* One store with subscribers that may mutate it from inside a pass.
NextReentrant ==
  \/ Set("sa")
  \/ Update("sa", AddReducers)
  \/ Compute("sa", MutComputes)
  \/ DoSubscribe("sa", Fixers)

SpecReentrant == Init /\ [][NextReentrant]_vars

\* One store whose subscribers mutate it, subscribe and unsubscribe from
\* inside a pass, also from inside the first call of a fireImmediately
\* subscription.
Nesters ==
  {Plain, [Plain EXCEPT !.eq = "parity"], [Plain EXCEPT !.beh = "fixup"],
   [Plain EXCEPT !.beh = "fixup", !.fire = TRUE],
   [Plain EXCEPT !.beh = "subFixer"], [Plain EXCEPT !.beh = "unsubSelf"],
   [Plain EXCEPT !.beh = "subNew"]}

NextNested ==
  \/ Set("sa")
  \/ Update("sa", AddReducers)
  \/ DoSubscribe("sa", Nesters)
  \/ DoUnsubscribe

SpecNested == Init /\ [][NextNested]_vars

\* One store written by batches whose callbacks call store.update as well
\* as the applier, with subscribers that record the count, the label or the
\* whole state, or throw.
DirectSteps ==
  {Add(1), Double, Direct(Add(2)), Direct(SetLabel("x")), Direct(Boom)}
DirectCallbacks == CallbacksUpTo(DirectSteps, MaxBatch)
DirectSubs ==
  {Plain, [Plain EXCEPT !.sel = "whole"], [Plain EXCEPT !.sel = "label"],
   [Plain EXCEPT !.sel = "label", !.beh = "throw"]}

NextBatchDirect ==
  \/ BatchDirect("sa", DirectCallbacks)
  \/ Update("sa", AddReducers)
  \/ DoSubscribe("sa", DirectSubs)

SpecBatchDirect == Init /\ [][NextBatchDirect]_vars

\* One store written through batches and through a transaction scope, with
\* recording subscribers.
NextStaged ==
  \/ Batch("sa", BatchCallbacks)
  \/ TxBegin
  \/ TxApply
  \/ TxCompute
  \/ TxSet
  \/ TxCommit
  \/ TxRollback
  \/ DoSubscribe("sa", Recorders)

SpecStaged == Init /\ [][NextStaged]_vars

\* One store, its subscribers and one transaction scope on it.
NextTx ==
  \/ TxBegin
  \/ TxApply
  \/ TxCompute
  \/ TxSet
  \/ TxRead
  \/ TxCommit
  \/ TxRollback
  \/ DirectSet
  \/ DoSubscribe("sa", Watchers)

SpecTx == Init /\ [][NextTx]_vars

\* One store, its subscribers, two transaction scopes on it and direct
\* updates of the store between their calls.
InitScopes ==
  /\ impl = "class"
  /\ current = [s \in Stores |-> Obj(IF s = "sa" THEN 0 ELSE 1, 0, "init")]
  /\ version = [s \in Stores |-> 0]
  /\ listeners = [s \in Stores |-> <<>>]
  /\ subs = <<>> /\ seen = <<>>
  /\ nops = 0 /\ deltas = <<>> /\ cancelled = {}
  /\ tx = NoScopes
  /\ promises = <<>> /\ comb = NoComb /\ NothingAttached
  /\ nextRef = 2
  /\ last = [op |-> "init", store |-> "sa", arg |-> NoArg, thrown |-> FALSE,
             ret |-> NoRet, passes |-> <<>>]

NextScopes ==
  \/ ScopeBegin
  \/ ScopeApply
  \/ ScopeCommit
  \/ ScopeRollback
  \/ Update("sa", AddReducers)
  \/ DoSubscribe("sa", Watchers)

SpecScopes == InitScopes /\ [][NextScopes]_vars

\* Two member stores under a composite view: member mutations, composite
\* subscribes and unsubscribes.
NextCombine ==
  \/ Set("sa")
  \/ Set("sb")
  \/ Update("sa", AddReducers)
  \/ SetSame("sb")
  \/ DoCombSubscribe
  \/ DoCombUnsubscribe

SpecCombine == InitCombine /\ [][NextCombine]_vars

\* The same runs as Spec on a store built by the closure createStore.
InitClosure == InitWith("closure")

SpecClosure == InitClosure /\ [][Next]_vars

\* A fresh store driven by update(addCount, d) calls alone.
NextAdds == UpdateAdd

SpecAdds == Init /\ [][NextAdds]_vars

\* ------------------------------------------------------------------ claims
RECURSIVE Sum(_)
Sum(ds) == IF ds = <<>> THEN 0 ELSE Sum(Tail(ds)) + Head(ds)

\* C1: after any sequence of update(addCount, d_i) calls on a fresh store whose
\* counter is 0, the counter is the sum of the d_i and the version is the
\* number of calls made.
C1_SumOfDeltas ==
  /\ current["sa"].count = Sum(deltas)
  /\ version["sa"] = Len(deltas)

C1_Witness ==
  /\ Len(deltas) = 3
  /\ deltas[1] = 2 /\ deltas[2] = -1 /\ deltas[3] = 2
  /\ current["sa"].count = 3

Content(o) == [count |-> o.count, label |-> o.label]

\* The content reached by applying the steps of cb to o from left to right
RECURSIVE FoldLeft(_, _)
FoldLeft(cb, o) ==
  IF Len(cb) = 0 THEN Content(o)
  ELSE LET before == FoldLeft(SubSeq(cb, 1, Len(cb) - 1), o)
           st == cb[Len(cb)]
       IN [count |-> ReduceCount(st, before), label |-> ReduceLabel(st, before)]

\* Some step of cb throws when cb is run on o
CallbackThrows(cb, o) ==
  \E i \in 1..Len(cb) : Throws(cb[i], FoldLeft(SubSeq(cb, 1, i - 1), o))

\* Subscription id is delivered v by this step / is not invoked by this step
Delivered(id, v) == seen'[id] = Append(seen[id], v)
NotInvoked(id) == seen'[id] = seen[id]

\* C2: a batch whose callback makes N apply calls sets the store once to the
\* left-to-right fold of the N reducers over the pre-batch value, adds exactly
\* 1 to the version and runs one notification pass; a subscriber on a changed
\* field is invoked exactly once, a subscriber on an unchanged field not at all.
C2_BatchOnce ==
  [][(last'.op = "batch" /\ ~CallbackThrows(last'.arg, current["sa"])) =>
       /\ ~last'.thrown
       /\ version'["sa"] = version["sa"] + 1
       /\ Content(current'["sa"]) = FoldLeft(last'.arg, current["sa"])
       /\ Len(last'.arg) = 0 => current'["sa"] = current["sa"]
       /\ last'.ret = current'["sa"]
       /\ Len(last'.passes) = (IF Len(listeners["sa"]) = 0 THEN 0 ELSE 1)
       /\ \A id \in 1..Len(subs) :
            IF /\ Has(listeners["sa"], id)
               /\ Select(subs[id].sel, current'["sa"]) # Select(subs[id].sel, current["sa"])
            THEN Delivered(id, Select(subs[id].sel, current'["sa"]))
            ELSE NotInvoked(id)]_vars

C2_Witness ==
  /\ last.op = "batch" /\ ~last.thrown
  /\ last.arg = <<Add(1), Double>>
  /\ current["sa"].count = 2 /\ version["sa"] = 1
  /\ Len(last.passes) = 1
  /\ \E id \in 1..Len(subs) : subs[id].sel = "count" /\ seen[id] = <<2>>

\* C6: when the reducer passed to update or the function passed to compute
\* throws, the exception reaches the caller, the store's value and version are
\* what they were before the call and no subscriber is invoked.
C6_ReducerThrowLeavesStore ==
  [][((last'.op = "update" \/ last'.op = "compute")
        /\ Throws(last'.arg, current[last'.store])) =>
       /\ last'.thrown
       /\ current' = current
       /\ version' = version
       /\ seen' = seen
       /\ Len(last'.passes) = 0]_vars

C6_Witness ==
  /\ last.op = "update" /\ last.thrown /\ last.arg = Guard
  /\ version["sa"] >= 1
  /\ Len(listeners["sa"]) > 0

\* C7: when the batch callback throws, directly or from a reducer passed to
\* apply and after any number of successful apply calls, the store's value and
\* version are unchanged and no notification pass runs.
C7_BatchThrowLeavesStore ==
  [][(last'.op = "batch" /\ CallbackThrows(last'.arg, current["sa"])) =>
       /\ last'.thrown
       /\ current' = current
       /\ version' = version
       /\ seen' = seen
       /\ Len(last'.passes) = 0]_vars

C7_Witness ==
  /\ last.op = "batch" /\ last.thrown
  /\ Len(last.arg) = 2 /\ last.arg[1] = Add(1)
  /\ (last.arg[2] = Guard \/ last.arg[2] = Raise)
  /\ current["sa"].count = 0
  /\ Len(listeners["sa"]) > 0

\* What subscription id last compared against: the value it was last invoked
\* with, or the selection made when it subscribed
PrevSelected(id) ==
  IF Len(seen[id]) > 0 THEN seen[id][Len(seen[id])] ELSE subs[id].at

Mutated == last'.op = "set" \/ last'.op = "update"

\* C5: on every notification pass a registered selector subscription invokes
\* its subscriber, with the new selection, if and only if eq(prevSelected,
\* selector(new state)) is false; a mutation that leaves the selection equal
\* does not invoke it.
C5_FiresIffChanged ==
  [][Mutated =>
       \A id \in 1..Len(subs) :
         Has(listeners["sa"], id) =>
           IF Eq(subs[id].eq, PrevSelected(id), Select(subs[id].sel, current'["sa"]))
           THEN NotInvoked(id)
           ELSE Delivered(id, Select(subs[id].sel, current'["sa"]))]_vars

C5_Witness ==
  /\ last.op = "set" /\ version["sa"] = 3 /\ current["sa"].count = 1
  /\ \E id \in 1..Len(subs) :
       /\ subs[id].sel = "count" /\ subs[id].eq = "is" /\ subs[id].beh = "rec"
       /\ subs[id].at = 0 /\ seen[id] = <<1>>
       /\ Has(last.passes[1].invoked, id)

\* C8: a notification pass invokes exactly the listeners registered when it
\* began, each once and in order, whatever the listeners remove or add
\* during the pass.
C8_PassInvokesSnapshot ==
  \A p \in 1..Len(last.passes) : last.passes[p].invoked = last.passes[p].snap

\* A pass over two listeners whose first removed itself while it was being
\* invoked, and whose second was then never called.
C8_Witness ==
  \E p \in 1..Len(last.passes) :
    /\ Len(last.passes[p].snap) = 2
    /\ subs[last.passes[p].snap[1]].beh = "unsubSelf"
    /\ last.passes[p].invoked = <<last.passes[p].snap[1]>>

\* The unsubscribe handle of subscription id has been called, outside a pass
\* or by the subscriber itself while it was being invoked
Unsubscribed(id) ==
  \/ id \in cancelled
  \/ subs[id].beh = "unsubSelf" /\ Len(seen[id]) > 0

\* C9: once its unsubscribe handle has been called, outside a pass or by the
\* subscriber during its own invocation, a subscriber is never invoked again
\* and no later pass calls its listener, while every other registered
\* listener is called by each later pass.
C9_UnsubscribedStaysSilent ==
  [][\A id \in 1..Len(subs) :
       /\ Unsubscribed(id) =>
            /\ NotInvoked(id)
            /\ \A p \in 1..Len(last'.passes) : ~Has(last'.passes[p].invoked, id)
       /\ (Mutated /\ ~Unsubscribed(id) /\ Has(listeners["sa"], id)) =>
            /\ Len(last'.passes) = 1
            /\ Has(last'.passes[1].invoked, id)]_vars

C9_Witness ==
  /\ last.op = "update" /\ Len(last.passes) = 1
  /\ \E id \in 1..Len(subs), other \in 1..Len(subs) :
       /\ subs[id].beh = "unsubSelf" /\ Len(seen[id]) = 1
       /\ seen[id][1] # current["sa"].count
       /\ ~Has(last.passes[1].snap, id)
       /\ subs[other].beh = "rec" /\ subs[other].sel = "count"
       /\ Len(seen[other]) = 2
       /\ Has(last.passes[1].invoked, other)

RECURSIVE Invocations(_, _)
\* The number of subscriber invocations recorded in the first n logs of sn
Invocations(sn, n) == IF n = 0 THEN 0 ELSE Invocations(sn, n - 1) + Len(sn[n])

\* C3: after beginTransaction, any sequence of tx.apply / tx.compute / tx.set
\* calls and then tx.rollback(), with no commit and no direct write in
\* between, the store's value and version are those from before
\* beginTransaction and no store subscriber has been invoked.
C3_RollbackLeavesStore ==
  (tx.begun /\ tx.rollbacks >= 1 /\ tx.commits = 0 /\ ~tx.touched) =>
    /\ current["sa"] = tx.atBegin.current
    /\ version["sa"] = tx.atBegin.version
    /\ Invocations(seen, Len(seen)) =
         Invocations(tx.atBegin.seen, Len(tx.atBegin.seen))

C3_Witness ==
  /\ tx.begun /\ last.op = "tx.rollback"
  /\ tx.rollbacks = 1 /\ tx.commits = 0 /\ ~tx.touched
  /\ tx.staged = 2
  /\ Len(listeners["sa"]) > 0
  /\ last.ret = tx.initial /\ tx.next = tx.initial

\* C4: tx.commit() after K staged calls makes exactly one store mutation
\* (version + 1) and one notification pass carrying the folded pending value;
\* a subscriber is invoked at most once, with its selection of the pending
\* value, and when commit returns the store holds the pending value, which is
\* also what commit returns.
C4_CommitOnce ==
  [][last'.op = "tx.commit" =>
       /\ version'["sa"] = version["sa"] + 1
       /\ current'["sa"] = tx.next
       /\ last'.ret = tx.next
       /\ ~last'.thrown
       /\ Len(last'.passes) = (IF Len(listeners["sa"]) = 0 THEN 0 ELSE 1)
       /\ \A id \in 1..Len(subs) :
            IF /\ Has(listeners["sa"], id)
               /\ Select(subs[id].sel, tx.next) # Select(subs[id].sel, current["sa"])
            THEN Delivered(id, Select(subs[id].sel, tx.next))
            ELSE NotInvoked(id)]_vars

C4_Witness ==
  /\ tx.begun /\ last.op = "tx.commit" /\ tx.commits = 1
  /\ tx.staged = 2 /\ tx.next.count = 2
  /\ current["sa"] = tx.next /\ last.ret = tx.next
  /\ version["sa"] = 1
  /\ \E id \in 1..Len(subs) : subs[id].sel = "count" /\ seen[id] = <<2>>

\* C10: after any sequence of member-store mutations and composite
\* subscribe / unsubscribe calls, with or without a composite subscriber, once
\* the call has returned combined.read()[k] is member k's current value for
\* every key k.
C10_ReadIsMemberValue ==
  \A k \in Stores : comb.current.members[k] = current[k]

\* The part of C10 the code keeps: a member write that replaces the member's
\* value while the composite view has its member listeners attached reaches
\* the aggregate.
WriteWhileAttachedIsRead ==
  [][((last'.op = "set" \/ last'.op = "update") /\ comb.childUnsubs # <<>>
        /\ current'[last'.store] # current[last'.store]) =>
       comb'.current.members[last'.store] = current'[last'.store]]_vars

\* A member write made with no composite subscriber, then a subscribe: the
\* aggregate still holds the member's old value.
C10_StaleAfterSubscribe ==
  /\ last.op = "combined.subscribe"
  /\ Len(comb.subscribers) > 0 /\ comb.childUnsubs # <<>>
  /\ comb.current.members["sa"] # current["sa"]

\* C11: when member k notifies, the composite replaces its aggregate by a new
\* object whose slot k is member k's snapshot and whose other slots are the
\* objects they were; no other call changes the aggregate, so read() keeps
\* returning the same reference between member notifications.
C11_OnlySlotReplaced ==
  [][IF /\ Mutated /\ comb.childUnsubs # <<>>
        /\ current'[last'.store] # current[last'.store]
     THEN /\ comb'.current.ref >= nextRef
          /\ comb'.current.ref # comb.current.ref
          /\ comb'.current.members[last'.store] = current'[last'.store]
          /\ \A j \in Stores :
               j # last'.store =>
                 comb'.current.members[j] = comb.current.members[j]
     ELSE comb'.current = comb.current]_vars

\* sb replaced while attached: slot sb is fresh and slot sa is still the
\* object it was, here one the member sa no longer holds
C11_Witness ==
  /\ last.op = "set" /\ last.store = "sb"
  /\ comb.childUnsubs # <<>>
  /\ comb.current.ref > 2
  /\ comb.current.members["sb"] = current["sb"]
  /\ comb.current.members["sa"] # current["sa"]
  /\ comb.current.members["sa"].ref = 0

\* The listeners of member store k that a composite view registered
MemberListeners(ls, ss, k) ==
  {i \in 1..Len(ls[k]) : ss[ls[k][i]].beh = "member"}

\* C12: member listeners are attached exactly when the composite has at least
\* one subscriber: one listener on each member store while the subscribers
\* array is non-empty, none while it is empty, over any number of
\* subscribe / unsubscribe cycles.
C12_AttachedIffSubscribed ==
  \A k \in Stores :
    Cardinality(MemberListeners(listeners, subs, k)) =
      (IF Len(comb.subscribers) > 0 THEN 1 ELSE 0)

\* A composite with a subscriber and no member listener: the subscriber was
\* added by a subscribe whose fireImmediately callback unsubscribed the only
\* other subscriber
C12_Witness ==
  /\ last.op = "combined.subscribe"
  /\ comb.subscribers = <<2>>
  /\ comb.subs[2].beh = "unsubOther" /\ comb.subs[2].arg = 1
  /\ Len(comb.seen[2]) = 1
  /\ comb.childUnsubs = <<>>
  /\ listeners["sa"] = <<>> /\ listeners["sb"] = <<>>

\* The part of C12 the code keeps: every call other than a subscribe whose
\* fireImmediately callback calls an unsubscribe handle keeps the member
\* listeners attached exactly when there is a subscriber.
AttachedKeptElsewhere ==
  [][(/\ C12_AttachedIffSubscribed
      /\ ~(/\ last'.op = "combined.subscribe"
            /\ Len(comb'.seen[last'.arg]) > 0
            /\ comb'.subs[last'.arg].beh = "unsubOther")) =>
       C12_AttachedIffSubscribed']_vars

\* A member mutation that replaces the member's value
Replaced == Mutated /\ current'[last'.store] # current[last'.store]

\* Composite subscription cid is delivered v by this step / is not invoked
CombDelivered(cid, v) == comb'.seen[cid] = Append(comb.seen[cid], v)
CombNotInvoked(cid) == comb'.seen[cid] = comb.seen[cid]

\* C13: with the default equality a composite subscriber is invoked exactly
\* once, with the new aggregate, for each member mutation that replaces that
\* member's value, and once at subscribe time when fireImmediately is set;
\* with a custom eq it is invoked exactly when eq(previous aggregate, new
\* aggregate) is false.
C13_InvokedPerReplacement ==
  [][/\ Replaced =>
          \A i \in 1..Len(comb.subscribers) :
            LET cid == comb.subscribers[i]
            IN IF comb.subs[cid].eq = "is"
                  \/ ~Eq(comb.subs[cid].eq, comb.subs[cid].prev, comb'.current)
               THEN CombDelivered(cid, comb'.current)
               ELSE CombNotInvoked(cid)
     /\ last'.op = "combined.subscribe" =>
          comb'.seen[last'.arg] =
            (IF comb'.subs[last'.arg].fire THEN <<comb.current>> ELSE <<>>)]_vars

\* The run of the test: a fireImmediately subscriber, then an update of sa
\* and a set of sb, gives three invocations
C13_ThreeInvocations ==
  /\ nops = 3 /\ last.op = "set" /\ last.store = "sb"
  /\ version["sa"] = 1 /\ version["sb"] = 1
  /\ comb.subscribers = <<1>>
  /\ comb.subs[1].fire /\ comb.subs[1].eq = "is"
  /\ Len(comb.seen[1]) = 3
  /\ comb.seen[1][3] = comb.current

\* A registered default-equality subscriber that a member replacement did
\* not reach
C13_Witness ==
  /\ last.op = "set" /\ Len(last.passes) = 1
  /\ \E cid \in 1..Len(comb.subs) :
       /\ Has(comb.subscribers, cid)
       /\ comb.subs[cid].eq = "is" /\ comb.subs[cid].beh = "rec"
       /\ comb.seen[cid] = <<>>
       /\ comb.subs[cid].prev # comb.current

\* The part of C13 the code keeps: in a notification during which no
\* composite unsubscribe handle is called, and with the member listeners
\* attached, each registered subscriber is invoked as C13 says.
InvokedPerReplacementUndisturbed ==
  [][(/\ Replaced
      /\ comb.childUnsubs # <<>>
      /\ comb'.subscribers = comb.subscribers) =>
       \A i \in 1..Len(comb.subscribers) :
         LET cid == comb.subscribers[i]
         IN IF ~Eq(comb.subs[cid].eq, comb.subs[cid].prev, comb'.current)
            THEN CombDelivered(cid, comb'.current)
            ELSE CombNotInvoked(cid)]_vars

\* C14: subscribe with fireImmediately invokes the subscriber exactly once
\* before it returns, with the selector applied to the state at subscribe
\* time, and changes nothing else; without fireImmediately the subscriber is
\* first invoked by the pass of a mutation, with a selection that differs
\* from the one made at subscribe time.
C14_FireImmediately ==
  [][/\ last'.op = "subscribe" =>
          /\ seen'[last'.arg] =
               (IF subs'[last'.arg].fire
                THEN <<Select(subs'[last'.arg].sel, current[last'.store])>>
                ELSE <<>>)
          /\ \A id \in 1..Len(subs) : NotInvoked(id)
          /\ current' = current /\ version' = version
          /\ Len(last'.passes) = 0
     /\ \A id \in 1..Len(subs) :
          (~subs[id].fire /\ seen[id] = <<>> /\ seen'[id] # <<>>) =>
            /\ Mutated
            /\ seen'[id] = <<Select(subs[id].sel, current'[subs[id].store])>>
            /\ ~Eq(subs[id].eq, subs[id].at, seen'[id][1])]_vars

C14_Witness ==
  /\ last.op = "subscribe" /\ version["sa"] = 2
  /\ current["sa"].count = 3
  /\ subs[last.arg].fire
  /\ seen[last.arg] = <<3>>
  /\ \E id \in 1..Len(subs) :
       ~subs[id].fire /\ subs[id].beh = "rec" /\ subs[id].sel = "label"
       /\ seen[id] = <<>>

\* The call just made is a mutation entry point / a read
Mutator ==
  \/ last'.op = "set" \/ last'.op = "update"
  \/ last'.op = "compute" \/ last'.op = "batch"
Reader(l) == l.op = "read" \/ l.op = "snapshot"

\* C15: the version never decreases; a successful set / update / compute /
\* batch adds exactly 1 to it; a failed one, and read, snapshot, effect,
\* subscribe and unsubscribe, leave the value reference and the version as
\* they were, run no notification pass and invoke no registered subscriber;
\* read and snapshot return the value reference, so two in a row return the
\* identical reference.
C15_VersionOnlyByMutation ==
  [][/\ version'["sa"] >= version["sa"]
     /\ (Mutator /\ ~last'.thrown) => version'["sa"] = version["sa"] + 1
     /\ ~(Mutator /\ ~last'.thrown) =>
          /\ version' = version /\ current' = current
          /\ Len(last'.passes) = 0
          /\ \A id \in 1..Len(subs) : NotInvoked(id)
     /\ Reader(last') => last'.ret = current["sa"]
     /\ (Reader(last) /\ Reader(last')) => last'.ret = last.ret]_vars

C15_Witness ==
  /\ last.op = "snapshot" /\ nops = 4
  /\ version["sa"] = 1 /\ current["sa"].count = 1
  /\ last.ret = current["sa"] /\ last.ret.ref >= 2
  /\ Len(listeners["sa"]) = 1 /\ Len(seen[1]) = 1

\* The value the call just made committed: the argument of set, the result
\* of the reducer of update / compute on the value the store held
Committed ==
  IF last'.op = "set" THEN last'.arg
  ELSE ApplyReducer(last'.arg, current[last'.store], nextRef)

\* C16: update, compute and set return the value the call itself committed,
\* whatever the registered subscribers do during the notification pass.
C16_ReturnsCommitted ==
  [][((last'.op = "set" \/ last'.op = "update" \/ last'.op = "compute")
        /\ ~last'.thrown) =>
       last'.ret = Committed]_vars

\* set({count: 1}) returning an object with count 2, the one a subscriber
\* committed from inside the pass
C16_Witness ==
  /\ last.op = "set" /\ ~last.thrown
  /\ last.arg.count = 1
  /\ last.ret # last.arg /\ last.ret.count = 2
  /\ last.ret = current["sa"]
  /\ Len(last.passes) = 2

\* The part of C16 the code keeps: a call during whose pass no subscriber
\* mutates the store returns what it committed.
ReturnsCommittedUndisturbed ==
  [][((last'.op = "set" \/ last'.op = "update" \/ last'.op = "compute")
        /\ ~last'.thrown /\ Len(last'.passes) <= 1) =>
       last'.ret = Committed]_vars

\* The call just made staged a value in the transaction scope
Staging ==
  last'.op = "tx.apply" \/ last'.op = "tx.compute" \/ last'.op = "tx.set"

\* C17: every subscriber invocation delivers the selector applied to the
\* value the store holds when the call returns; a batch runs at most one
\* pass, after its fold, and a staging call on a transaction scope runs none
\* and invokes nobody, so no subscriber receives the selection of an
\* intermediate batch step or of a pending value.
C17_OnlyCommittedValues ==
  [][/\ \A id \in 1..Len(subs) :
          \/ NotInvoked(id)
          \/ Delivered(id, Select(subs[id].sel, current'[subs[id].store]))
     /\ last'.op = "batch" => Len(last'.passes) <= 1
     /\ Staging =>
          /\ Len(last'.passes) = 0
          /\ \A id \in 1..Len(subs) : NotInvoked(id)]_vars

\* A subscriber that fired at subscribe time with 0 and then saw 2 from a
\* batch of add 1 and double: it never saw the 1 in between
C17_Witness ==
  /\ last.op = "batch" /\ ~last.thrown
  /\ Len(last.arg) = 2 /\ last.arg[1] = Add(1) /\ last.arg[2] = Double
  /\ \E id \in 1..Len(subs) :
       subs[id].fire /\ subs[id].sel = "count" /\ seen[id] = <<0, 2>>

\* A transaction whose pending value went through 1 while a subscriber
\* saw only the committed 2
C17_TxWitness ==
  /\ last.op = "tx.commit" /\ tx.staged = 2 /\ tx.next.count = 2
  /\ \E id \in 1..Len(subs) :
       subs[id].fire /\ subs[id].sel = "count" /\ seen[id] = <<0, 2>>

\* The content reached by applying the staged steps to o from left to right
RECURSIVE TxFold(_, _)
TxFold(steps, o) ==
  IF Len(steps) = 0 THEN Content(o)
  ELSE LET before == TxFold(SubSeq(steps, 1, Len(steps) - 1), o)
           st == steps[Len(steps)]
       IN IF st.name = "set" THEN Content(st.arg)
          ELSE [count |-> ReduceCount(st, before), label |-> ReduceLabel(st, before)]

\* C18: tx.apply, tx.compute and tx.set act only on the scope's pending
\* value: before any commit, and with no direct write, the store's value and
\* version are those of beginTransaction and no subscriber has been invoked
\* since, while the value tx.read() returns is the fold of the staged steps
\* over the baseline.
C18_StagingLeavesStore ==
  /\ (tx.begun /\ tx.commits = 0 /\ ~tx.touched) =>
       /\ current["sa"] = tx.atBegin.current
       /\ version["sa"] = tx.atBegin.version
       /\ Invocations(seen, Len(seen)) =
            Invocations(tx.atBegin.seen, Len(tx.atBegin.seen))
  /\ tx.begun =>
       /\ Content(tx.next) = TxFold(tx.steps, tx.initial)
       /\ tx.steps = <<>> => tx.next = tx.initial
       /\ last.op = "tx.read" => last.ret = tx.next

C18_Witness ==
  /\ last.op = "tx.read" /\ tx.commits = 0 /\ tx.rollbacks = 0
  /\ tx.steps = <<Add(1), Double>>
  /\ last.ret.count = 2
  /\ current["sa"].count = 0 /\ version["sa"] = 0
  /\ Len(listeners["sa"]) = 1 /\ seen[1] = <<>>

\* The call just made is a call on the transaction scope
TxCall ==
  \/ Staging \/ last'.op = "tx.read"
  \/ last'.op = "tx.commit" \/ last'.op = "tx.rollback"

\* C19: once a scope has been terminated by a commit or a rollback, a further
\* commit, rollback, apply, compute or set on it does not mutate the store:
\* value and version stay and no notification pass runs.
C19_TerminatedScopeIsInert ==
  [][(tx.begun /\ tx.commits + tx.rollbacks >= 1 /\ TxCall) =>
       /\ current' = current
       /\ version' = version
       /\ Len(last'.passes) = 0]_vars

\* One scope, nothing else writing the store, and two store mutations: a
\* commit, one more staged step, a second commit
C19_Witness ==
  /\ last.op = "tx.commit" /\ tx.commits = 2 /\ ~tx.touched
  /\ tx.atBegin.version = 0 /\ version["sa"] = 2
  /\ current["sa"].count = 2

\* A rolled back scope that then commits: the store is written all the same
C19_CommitAfterRollback ==
  /\ last.op = "tx.commit" /\ tx.commits = 1 /\ tx.rollbacks = 1 /\ ~tx.touched
  /\ version["sa"] = tx.atBegin.version + 1
  /\ Len(last.passes) = 1

\* C20: tx.rollback() returns the value the store held when beginTransaction
\* was called and resets the pending value to it, and tx.read() made with
\* nothing staged since returns that same object, whatever was staged before
\* and whatever has been written to the store since the scope began.
C20_RollbackReturnsBaseline ==
  tx.begun =>
    /\ last.op = "tx.rollback" =>
         /\ last.ret = tx.atBegin.current
         /\ tx.next = tx.atBegin.current
    /\ (last.op = "tx.read" /\ tx.steps = <<>>) =>
         last.ret = tx.atBegin.current

\* Staged, the store written directly, rolled back, then read: the baseline,
\* which the store no longer holds
C20_Witness ==
  /\ last.op = "tx.read" /\ tx.rollbacks = 1 /\ tx.commits = 0
  /\ tx.staged >= 1 /\ tx.steps = <<>> /\ tx.touched
  /\ last.ret = tx.atBegin.current
  /\ last.ret # current["sa"]

\* The position in the listeners of the first listener whose subscriber
\* throws in the pass this step runs: a "throw" subscriber whose selection
\* differs from the one it was last given; 0 when there is none
FirstFailing ==
  LET ls == listeners[last'.store]
      failing == {i \in 1..Len(ls) :
                    /\ subs[ls[i]].beh = "throw"
                    /\ subs[ls[i]].prev # Select(subs[ls[i]].sel, current'[last'.store])}
  IN IF failing = {} THEN 0
     ELSE CHOOSE i \in failing : \A j \in failing : i <= j

\* C21: when a subscriber throws during a notification pass the exception
\* leaves the set/update call that started the pass, and no listener placed
\* after the failing one is called in that pass: the pass has called the
\* listeners up to the failing one, in order, and nobody else; when no
\* subscriber throws the call returns and the pass calls every listener.
C21_ThrowEndsPass ==
  [][(Mutated /\ Len(listeners[last'.store]) > 0) =>
       LET ls == listeners[last'.store]
           f == FirstFailing
       IN /\ Len(last'.passes) = 1
          /\ last'.thrown <=> (f > 0)
          /\ last'.passes[1].invoked = (IF f > 0 THEN SubSeq(ls, 1, f) ELSE ls)
          /\ f > 0 =>
               /\ Delivered(ls[f], Select(subs[ls[f]].sel, current'[last'.store]))
               /\ \A j \in (f + 1)..Len(ls) : NotInvoked(ls[j])]_vars

\* a pass over three listeners, the second throwing: the first was invoked,
\* the third, whose selection changed as well, was not
C21_Witness ==
  /\ last.op = "set" /\ last.thrown
  /\ Len(last.passes) = 1
  /\ Len(last.passes[1].snap) = 3
  /\ Len(last.passes[1].invoked) = 2
  /\ LET ls == last.passes[1].snap
     IN /\ subs[ls[1]].beh = "rec" /\ Len(seen[ls[1]]) = 1
        /\ subs[ls[2]].beh = "throw" /\ Len(seen[ls[2]]) = 1
        /\ subs[ls[3]].beh = "rec" /\ subs[ls[3]].sel = "count"
        /\ seen[ls[3]] = <<>>
        /\ subs[ls[3]].prev # current["sa"].count

\* C22: derive(store, selector).read() returns the selector applied to the
\* value the store holds, whatever mutations came before, and a subscriber
\* given to derived.subscribe(sub, opts) has been invoked with exactly the
\* values, in order, that a subscriber given to store.subscribe(selector,
\* sub, opts) at the same moment has been invoked with.
C22_DerivedIsSelection ==
  /\ last.op = "derived.read" => last.ret = Select(last.arg, current[last.store])
  /\ \A k \in 1..MaxPairs :
       2 * k <= Len(subs) =>
         /\ seen[2 * k - 1] = seen[2 * k]
         /\ subs[2 * k - 1].prev = subs[2 * k].prev
         /\ Has(listeners["sa"], 2 * k - 1) <=> Has(listeners["sa"], 2 * k)

\* a derived subscription with a parity equality, invoked for 0 -> 1 and not
\* for 1 -> 3, and a derived read of the count after the two updates
C22_Witness ==
  /\ last.op = "derived.read" /\ last.arg = "count" /\ last.ret = 3
  /\ version["sa"] = 2
  /\ Len(subs) = 2 /\ subs[1].eq = "parity"
  /\ seen[1] = <<1>> /\ seen[2] = <<1>>

\* What the logging middlewares that define the hook `when` push, in array
\* order, when each is called once with the context (ver, snap, payload)
\* while the subscribers' records are sn and n promises have been made
HookCalls(when, op, ver, snap, payload, sn, n) ==
  LET all == [i \in 1..Len(mw.list) |->
                [mw |-> i, when |-> when, op |-> op, version |-> ver,
                 snapshot |-> snap, payload |-> payload, seen |-> sn,
                 made |-> n]]
  IN SelectSeq(all, LAMBDA c : mw.list[c.mw].kind = "log" /\ mw.list[c.mw][when])

\* C23: a successful set / update / compute / batch made through the wrapper
\* runs each middleware's before hook exactly once, in array order, with the
\* version and value the store had before the call and before any subscriber
\* was invoked, then each after hook exactly once, in array order, with the
\* version and value the store has after the call, the subscribers of its
\* notification pass already invoked.
C23_HooksAroundMutation ==
  [][(Mutator /\ ~last'.thrown) =>
       mw'.calls = mw.calls
         \o HookCalls("before", last'.op, version["sa"], current["sa"],
                      Payload(last'.op, last'.arg), seen, Len(promises))
         \o HookCalls("after", last'.op, version'["sa"], current'["sa"],
                      Payload(last'.op, last'.arg), seen', Len(promises'))]_vars

\* an update through two logging middlewares on a store whose subscriber
\* mutates it again during the pass: the before hooks saw version 0, the
\* after hooks version 2 and the subscriber's invocations
C23_Witness ==
  /\ last.op = "update" /\ ~last.thrown
  /\ Len(mw.list) = 2 /\ Len(mw.calls) = 4
  /\ mw.calls[1].when = "before" /\ mw.calls[1].mw = 1 /\ mw.calls[1].version = 0
  /\ mw.calls[2].when = "before" /\ mw.calls[2].mw = 2
  /\ mw.calls[3].when = "after" /\ mw.calls[3].mw = 1 /\ mw.calls[3].version = 2
  /\ mw.calls[4].when = "after" /\ mw.calls[4].mw = 2
  /\ mw.calls[4].snapshot = current["sa"]
  /\ mw.calls[3].seen # mw.calls[1].seen

\* This step is a call of one of the wrapper's operations
WrapperCall ==
  \/ Mutator \/ Reader(last') \/ last'.op = "effect" \/ last'.op = "subscribe"

\* What the same operation, called on the wrapped store itself in the state
\* this step starts from, leaves and returns
DirectCall ==
  LET s == last'.store
      a == last'.arg
  IN CASE last'.op = "set" -> StoreSet([World EXCEPT !.nextRef = @ + 1], s, a)
       [] last'.op = "subscribe" ->
            Subscribe(World, s, subs'[a].sel, subs'[a].eq, subs'[a].fire,
                      subs'[a].beh, subs'[a].arg)
       [] OTHER -> StoreCall(World, s, last'.op, a)

\* The step leaves the store, its listeners and its subscribers' records as d
\* does, throws when d throws and runs the passes d runs
SameStoreAs(d) ==
  /\ current' = d.current /\ version' = d.version
  /\ listeners' = d.listeners /\ subs' = d.subs /\ seen' = d.seen
  /\ last'.thrown = d.thrown /\ last'.passes = d.passes

\* C24: every operation of the wrapper (set, update, compute, batch, effect,
\* read, snapshot, subscribe) returns exactly what the wrapped store's
\* operation returns, and leaves the store's value, its version and the
\* subscribers' invocations as the direct call does.
C24_WrapperIsStore ==
  [][WrapperCall => (SameStoreAs(DirectCall) /\ last'.ret = DirectCall.ret)]_vars

\* the wrapper's effect has returned the promise then() made (2), not the one
\* the effect function returned (1)
C24_Witness ==
  /\ last.op = "effect" /\ ~last.thrown
  /\ Len(promises) = 2
  /\ promises[1].root /\ promises[1].chained = 2
  /\ last.ret = PromiseRef(2)

\* what the wrapper keeps: the store is left as by the direct call, and what
\* the store returns is returned, but for a promise, in whose place the
\* wrapper returns the pending promise of its own then() on it
WrapperIsStoreButPromise ==
  [][WrapperCall =>
       LET d == DirectCall
       IN /\ SameStoreAs(d)
          /\ IF IsPromise(d.ret)
             THEN /\ IsPromise(last'.ret)
                  /\ last'.ret # d.ret
                  /\ promises'[d.ret.promise].chained = last'.ret.promise
                  /\ promises'[last'.ret.promise].state = "pending"
             ELSE last'.ret = d.ret]_vars

\* the effect's promise was fulfilled with a value and the promise the wrapper
\* returned with undefined
ResolutionValueDropped ==
  /\ last.op = "settle"
  /\ promises[1].state = "fulfilled" /\ promises[1].value = "data"
  /\ promises[2].state = "fulfilled" /\ promises[2].value = "undefined"

\* C25: an effect that returns a pending promise, called through the wrapper,
\* has its before hooks run before the effect function is invoked (the promise
\* the function makes does not exist yet) and no after hook run by the time
\* the call returns; the after hooks run, once each and in array order, in
\* the step that fulfils the promise, and never when it is rejected.
C25_AfterAtResolution ==
  [][/\ (last'.op = "effect" /\ last'.arg = Later) =>
          /\ ~last'.thrown
          /\ promises'[Len(promises) + 1].root
          /\ promises'[Len(promises) + 1].state = "pending"
          /\ mw'.calls = mw.calls
               \o HookCalls("before", "effect", version["sa"], current["sa"],
                            NoArg, seen, Len(promises))
     /\ last'.op = "settle" =>
          /\ promises[last'.arg].state = "pending"
          /\ IF promises'[last'.arg].state = "fulfilled"
             THEN mw'.calls = mw.calls
                    \o HookCalls("after", "effect", version'["sa"], current'["sa"],
                                 NoArg, seen', Len(promises'))
             ELSE mw'.calls = mw.calls]_vars

\* an asynchronous effect, a set while its promise is pending, then the
\* fulfilment: the log of two logging middlewares reads before, before (the
\* effect), the four hooks of the set, after, after (the effect)
C25_Witness ==
  /\ last.op = "settle" /\ promises[1].state = "fulfilled"
  /\ Len(mw.list) = 2 /\ Len(mw.calls) = 8
  /\ mw.calls[1].op = "effect" /\ mw.calls[1].when = "before" /\ mw.calls[1].made = 0
  /\ mw.calls[2].op = "effect" /\ mw.calls[2].when = "before"
  /\ mw.calls[3].op = "set" /\ mw.calls[6].op = "set"
  /\ mw.calls[7].op = "effect" /\ mw.calls[7].when = "after" /\ mw.calls[7].mw = 1
  /\ mw.calls[8].op = "effect" /\ mw.calls[8].when = "after" /\ mw.calls[8].mw = 2
  /\ mw.calls[7].version = 1

\* The devtools middleware is one of the middlewares of the wrapper
HasDevtools == \E i \in 1..Len(mw.list) : mw.list[i].kind = "devtools"

\* This step calls set, update, compute, batch or effect of the wrapper
HookedCall == Mutator \/ last'.op = "effect"

\* what conn.send is given for the operation this step completes
Sent(op, payload) ==
  [op |-> op, payload |-> payload, state |-> current'["sa"],
   version |-> version'["sa"]]

\* C26: a devtools middleware calls conn.init exactly once, in the first
\* operation made through the wrapper, before that operation is applied and
\* with the value the store held before it; it calls conn.send exactly once
\* for each operation that completes, as it completes, with meta.version the
\* store's version right after the operation; an operation that throws, a
\* read and a subscribe send nothing.
C26_DevtoolsProtocol ==
  [][HasDevtools =>
       /\ mw'.inits = (IF HookedCall /\ ~mw.initialized
                       THEN <<current["sa"]>> ELSE mw.inits)
       /\ mw'.initialized <=> (mw.initialized \/ HookedCall)
       /\ Len(mw'.inits) <= 1
       /\ mw'.events =
            (IF HookedCall /\ ~last'.thrown
                /\ ~(last'.op = "effect" /\ last'.arg = Later)
             THEN Append(mw.events, Sent(last'.op, Payload(last'.op, last'.arg)))
             ELSE IF last'.op = "settle" /\ promises'[last'.arg].state = "fulfilled"
             THEN Append(mw.events, Sent("effect", NoArg))
             ELSE mw.events)]_vars

\* set, update and compute on a fresh store: one init, with the initial
\* value, and three events carrying the versions 1, 2, 3
C26_Witness ==
  /\ HasDevtools
  /\ mw.inits = <<Obj(0, 0, "init")>>
  /\ Len(mw.events) = 3
  /\ mw.events[1].op = "set" /\ mw.events[1].version = 1
  /\ mw.events[2].op = "update" /\ mw.events[2].version = 2
  /\ mw.events[3].op = "compute" /\ mw.events[3].version = 3
  /\ mw.events[3].state = current["sa"]

\* undo() with the pointer at i > 0 moves it to i - 1 and sets the store to
\* e(i-1); at i <= 0 it returns undefined and changes nothing
UndoStep ==
  last'.op = "history.undo" =>
    IF hist.idx > 0
    THEN /\ hist'.idx = hist.idx - 1
         /\ current'["sa"] = hist.items[hist.idx]
         /\ last'.ret = hist.items[hist.idx]
         /\ hist'.items = hist.items
    ELSE /\ last'.ret = NoRet
         /\ hist'.idx = hist.idx /\ hist'.items = hist.items
         /\ current' = current /\ version' = version

\* redo() with the pointer at i < n moves it to i + 1 and sets the store to
\* e(i+1); at i = n it returns undefined and changes nothing
RedoStep ==
  last'.op = "history.redo" =>
    IF hist.idx < Len(hist.items) - 1
    THEN /\ hist'.idx = hist.idx + 1
         /\ current'["sa"] = hist.items[hist.idx + 2]
         /\ last'.ret = hist.items[hist.idx + 2]
         /\ hist'.items = hist.items
    ELSE /\ last'.ret = NoRet
         /\ hist'.idx = hist.idx /\ hist'.items = hist.items
         /\ current' = current /\ version' = version

\* The last 2k calls were k undo() calls and then k redo() calls
UndosThenRedos(k) ==
  /\ hist.made /\ Len(hist.trail) >= 2 * k
  /\ \A j \in 1..k :
       /\ hist.trail[Len(hist.trail) - 2 * k + j].op = "history.undo"
       /\ hist.trail[Len(hist.trail) - k + j].op = "history.redo"

\* k undos followed by k redos have restored the value the store held before
\* the undos
RestoredAfterUndoRedo ==
  \A k \in 1..MaxHistOps :
    UndosThenRedos(k) =>
      current["sa"] = hist.trail[Len(hist.trail) - 2 * k + 1].before

\* k undos made with the pointer at i >= k, followed by k redos, have brought
\* the pointer back to i and the store to e(i): the value the store held
\* before the undos when that value was e(i)
BackAtEntryAfterUndoRedo ==
  \A k \in 1..MaxHistOps :
    UndosThenRedos(k) =>
      LET t == hist.trail[Len(hist.trail) - 2 * k + 1]
      IN t.at >= k =>
           /\ hist.idx = t.at
           /\ current["sa"] = hist.items[t.at + 1]
           /\ t.before = hist.items[t.at + 1] => current["sa"] = t.before

\* C27: with entries e0..en and the pointer at i, undo() with i > 0 moves the
\* pointer to i-1 and sets the store to e(i-1), redo() with i < n moves it to
\* i+1 and sets the store to e(i+1), undo() at i = 0 and redo() at i = n
\* return undefined and change neither pointer nor store; hence k undos
\* followed by k redos restore the value the store held before the undos.
C27_UndoRedo ==
  [][UndoStep /\ RedoStep /\ RestoredAfterUndoRedo']_vars

\* C27 (amended): the same, the last part for k undos made with the pointer
\* at i >= k: they and the k redos bring the pointer back to i and the store
\* to e(i), which is the value held before the undos if the store held e(i).
C27_UndoRedoAtEntry ==
  [][UndoStep /\ RedoStep /\ BackAtEntryAfterUndoRedo']_vars

\* attached history, two updates, undo, redo: the store is back at the value
\* it held, the third entry
C27_Witness ==
  /\ UndosThenRedos(1)
  /\ Len(hist.items) = 3 /\ hist.idx = 2
  /\ hist.trail[Len(hist.trail) - 1].at = 2
  /\ current["sa"] = hist.items[3]
  /\ current["sa"].count = 2
  /\ current["sa"] = hist.trail[Len(hist.trail) - 1].before

\* a value set and not recorded is not restored: the store held count 2 with
\* the pointer at e1 (count 1); undo and redo leave it at e1
C27_UnrecordedValueLost ==
  /\ UndosThenRedos(1)
  /\ hist.trail[Len(hist.trail) - 1].at = 1
  /\ hist.trail[Len(hist.trail) - 1].before.count = 2
  /\ hist.idx = 1
  /\ current["sa"].count = 1

\* This step records an entry: record() is called, or the store is updated
\* while the history is attached
Records ==
  \/ last'.op = "history.record"
  \/ last'.op = "update" /\ hist.unsub # 0

\* C28: a record made while the pointer is not at the last entry discards
\* every entry after the pointer and then appends, so that right after any
\* record the pointer is size - 1 and canRedo() is false; the entries before
\* the pointer, and the pointer's, are kept (but for the oldest, dropped when
\* the limit is passed).
C28_RecordTruncatesRedo ==
  [][Records =>
       LET cut == SubSeq(hist.items, 1, hist.idx + 1)
           pushed == Append(cut, current'["sa"])
       IN /\ hist'.items = (IF Len(pushed) > hist.limit THEN Tail(pushed) ELSE pushed)
          /\ hist.idx < Len(hist.items) - 1 => Len(hist'.items) = hist.idx + 2
          /\ hist'.idx = Len(hist'.items) - 1
          /\ ~CanRedo(hist')]_vars

\* three entries, two undos, one new change: two entries, the pointer on
\* the second
C28_Witness ==
  /\ hist.made /\ Len(hist.trail) = 5
  /\ hist.trail[1].op = "update" /\ hist.trail[2].op = "update"
  /\ hist.trail[3].op = "history.undo" /\ hist.trail[3].at = 2
  /\ hist.trail[4].op = "history.undo"
  /\ hist.trail[5].op = "update" /\ hist.trail[5].at = 0
  /\ Len(hist.items) = 2 /\ hist.idx = 1
  /\ hist.items[1].count = 0 /\ hist.items[2] = current["sa"]
  /\ current["sa"].count = 1

\* This step is a call of undo, redo or jumpTo
Travels ==
  \/ last'.op = "history.undo" \/ last'.op = "history.redo"
  \/ last'.op = "history.jumpTo"

\* C29: while the history is attached a store mutation that changes the
\* state appends exactly one entry, the new state, after the pointer's; the
\* store.set that undo, redo and jumpTo make appends none, the entries are
\* the same after as before, also when the call changed the store; once
\* detached, a store mutation changes neither entries nor pointer.
C29_OneEntryPerMutation ==
  [][/\ (last'.op = "update" /\ hist.unsub # 0) =>
          /\ current'["sa"] # current["sa"]
          /\ hist'.items[Len(hist'.items)] = current'["sa"]
          /\ Len(hist'.items) =
               (IF hist.idx + 2 > hist.limit THEN hist.limit ELSE hist.idx + 2)
          /\ \A j \in 1..(Len(hist'.items) - 1) :
               hist'.items[j] = hist.items[hist.idx + 1 - (Len(hist'.items) - 1) + j]
     /\ Travels =>
          /\ hist'.items = hist.items
          /\ hist'.unsub = hist.unsub /\ ~hist'.suppress
     /\ (last'.op = "update" /\ hist.unsub = 0) =>
          /\ current'["sa"] # current["sa"]
          /\ hist'.items = hist.items /\ hist'.idx = hist.idx]_vars

\* attached: an update recorded, an undo that changed the store and left the
\* two entries, then detach and an update that was not recorded
C29_Witness ==
  /\ hist.made /\ Len(hist.trail) = 4
  /\ hist.trail[1].op = "update" /\ hist.trail[2].op = "history.undo"
  /\ hist.trail[2].before.count = 1
  /\ hist.trail[3].op = "history.detach" /\ hist.trail[3].before.count = 0
  /\ hist.trail[4].op = "update"
  /\ Len(hist.items) = 2 /\ hist.idx = 0 /\ hist.unsub = 0
  /\ current["sa"] # hist.items[1] /\ current["sa"] # hist.items[2]

\* ------------------------------------------------------------------- C30
\* persistLocal has been called and its listener is subscribed; detach() has
\* been called since
PersistAttached == persist.made /\ persist.detach # 0
PersistDetached == persist.made /\ persist.detach = 0

\* The step is a store mutation that replaces the state
StateChanged == Mutated /\ current'["sa"] # current["sa"]

\* The step is persistLocal with loadInitial on a storage holding a JSON text
LoadsInitial ==
  /\ last'.op = "persist.attach"
  /\ last'.arg
  /\ persist.entry # NoEntry
  /\ ~DecodeThrows(persist.entry)

NotWritten == persist'.entry = persist.entry /\ persist'.writes = persist.writes

\* after detach() no mutation writes; the load sets the store to a new object
\* with the stored content and writes nothing
DetachedAndLoad ==
  /\ PersistDetached /\ Mutated => NotWritten
  /\ LoadsInitial =>
       /\ Content(current'["sa"]) = Content(Decode(persist.entry, 0))
       /\ current'["sa"].ref = nextRef
       /\ version'["sa"] = version["sa"] + 1
       /\ NotWritten

\* C30: while persistLocal is attached, after every store mutation that
\* changes the state the storage entry equals encode(current value); after
\* detach() no store mutation writes the entry; with loadInitial and a
\* decodable stored value the store is set to the decoded value at attach
\* time and that load is not written back.
C30_PersistLocal ==
  [][/\ PersistAttached /\ StateChanged =>
          persist'.entry = Encode(current'["sa"])
     /\ DetachedAndLoad]_vars

\* What the code keeps: the entry follows every mutation whose pass reaches
\* the listener while suppress is down, and the other two statements.
PersistLocalUndisturbed ==
  [][/\ PersistAttached /\ StateChanged /\ ~persist.suppress /\ ~last'.thrown =>
          /\ persist'.entry = Encode(current'["sa"])
          /\ persist'.writes = persist.writes + 1
     /\ DetachedAndLoad]_vars

\* suppress is raised only by a load whose store.set threw, and then for good
SuppressOnlyAfterFailedLoad ==
  [][/\ persist'.suppress /\ ~persist.suppress =>
          LoadsInitial /\ Len(last'.passes) > 0
     /\ persist.suppress => persist'.suppress]_vars

\* A subscriber threw inside the store.set of the load: suppress stayed up,
\* and an update that returned normally, with persistLocal attached, was not
\* written: the storage still holds the seed.
C30_Witness ==
  /\ PersistAttached
  /\ persist.suppress
  /\ last.op = "update" /\ ~last.thrown
  /\ current["sa"].count = 11
  /\ persist.entry = Seed
  /\ persist.writes = 0

\* The test: the seed is loaded, an update is written, and after detach() a
\* further update is not.
PersistTestScenario ==
  /\ PersistDetached
  /\ ~persist.suppress
  /\ last.op = "update"
  /\ current["sa"].count = 12
  /\ persist.entry = [Seed EXCEPT !.count = 11]
  /\ persist.writes = 1

\* ------------------------------------------------------------------- C31
\* This step calls serializer.decode, by itself or inside rehydrate
Decodes == last'.op = "decode" \/ last'.op = "rehydrate"

\* <<v, v + 1, ..., v + n - 1>>
Ascending(v, n) == [i \in 1..n |-> v + i - 1]

\* d taken through migrations k, k + 1, ..., target - 1
RECURSIVE Migrated(_, _, _)
Migrated(k, target, d) ==
  IF k >= target THEN d ELSE Migrated(k + 1, target, Migration(k, d))

\* One of the migrations from v up throws on what it is handed
SomeMigrationThrows(s, x) ==
  \E k \in x.v.n..(s.version - 1) :
    MigrationThrows(s.strict, k, Migrated(x.v.n, k, x.data))

\* C31: decode on a payload {v, data} with v <= target applies
\* migrations[v], ..., migrations[target - 1] once each in ascending order
\* and then validates; it throws without returning a value when v > target,
\* when a needed migration is missing, when the payload lacks a numeric v or
\* a data field, or when validation of the migrated data fails; the loop
\* ends after at most target - v iterations.
C31_DecodeMigrates ==
  [][Decodes =>
       LET x == last'.arg
           out == ser'.out
           v == x.v.n
           t == ser.version
           migrated == Migrated(v, t, x.data)
           complete == \A k \in v..(t - 1) : k \in ser.migrations
       IN /\ last'.thrown = out.thrown
          /\ out.thrown /\ last'.op = "rehydrate" =>
               current' = current /\ version' = version
          /\ out.iters <= (IF IsVersioned(x) /\ v < t THEN t - v ELSE 0)
          /\ IsVersioned(x) /\ v <= t /\ complete /\ ~SomeMigrationThrows(ser, x) =>
               /\ out.iters = t - v
               /\ out.data.trail = Ascending(v, t - v)
               /\ out.data = migrated
               /\ out.thrown <=> ~Validate(migrated)
               /\ out.thrown => out.why = "Validation failed"
          /\ ~IsVersioned(x) \/ v > t =>
               out.thrown /\ out.iters = 0 /\ out.data = x.data
          /\ IsVersioned(x) /\ v <= t /\ ~complete => out.thrown]_vars

\* A v0 payload decoded by a serializer of version 3 with all three
\* migrations: they ran in the order 0, 1, 2 and the result was returned.
C31_Witness ==
  /\ last.op = "decode" /\ ~last.thrown
  /\ ser.version = 3
  /\ last.arg.v = Num(0)
  /\ ser.out.data.trail = <<0, 1, 2>>
  /\ ser.out.data.label = "" /\ ser.out.data.count = 5

\* The round trip of the hydration test: a legacy v1 text is rehydrated, the
\* store updated and dehydrated, and the text rehydrated again.
SerializerRoundTrip ==
  /\ last.op = "rehydrate" /\ ~last.thrown
  /\ last.arg = ser.raw
  /\ current["sa"].count = 6 /\ current["sa"].label = ""
  /\ current["sa"].ref # 0

\* ------------------------------------------------------------------- C32
\* Subscription id is registered and the selection it saw last is, by its
\* eq, the selection of the store's value
Registered(id) == Has(listeners[subs[id].store], id)
OfferedCurrent(id) ==
  Eq(subs[id].eq, subs[id].prev, Select(subs[id].sel, current[subs[id].store]))

\* C32: after any mutation call returns normally, also when subscribers
\* mutate the store, subscribe or unsubscribe during the pass, every
\* subscription still registered satisfies eq(last selection seen,
\* selector(current value)).
C32_AllOfferedFinal ==
  [][Mutated /\ ~last'.thrown =>
       \A id \in 1..Len(subs') : Registered(id)' => OfferedCurrent(id)']_vars

\* What the code keeps: a subscription is behind only if it was made with
\* fireImmediately and its subscriber mutated the store in that first call.
OfferedFinalUnlessFiredFirst ==
  [][Mutated /\ ~last'.thrown =>
       \A id \in 1..Len(subs') :
         Registered(id)' =>
           \/ OfferedCurrent(id)'
           \/ /\ subs'[id].fire /\ subs'[id].beh = "fixup"
              /\ id > Len(subs)
              /\ subs'[id].prev % 2 = 1]_vars

\* A subscriber subscribed, inside the pass of update(add, 1), a
\* fireImmediately subscription whose first call, given 1, updated the store
\* to 2: the update has returned, the subscription is registered, the last
\* and only value it saw is 1, and the store is at 2.
C32_Witness ==
  /\ last.op = "update" /\ ~last.thrown
  /\ Len(subs) >= 2
  /\ Registered(2)
  /\ subs[2].fire /\ subs[2].beh = "fixup"
  /\ seen[2] = <<1>> /\ subs[2].prev = 1
  /\ current["sa"].count = 2

\* ------------------------------------------------------------------- C33
\* C33: for each subscription, any two consecutively delivered values, the
\* fireImmediately delivery included, are unequal by its eq, also when
\* subscribers mutate the store from inside a pass: the outer pass does not
\* deliver again what the nested pass delivered.
C33_NoRepeatedDelivery ==
  \A id \in 1..Len(subs) :
    \A i \in 1..(Len(seen[id]) - 1) :
      ~Eq(subs[id].eq, seen[id][i], seen[id][i + 1])

\* update(add, 1) with a fixing subscriber registered before a recording
\* one: the fixer was given 1 and, in the nested pass of its own update, 2;
\* the recorder was given 2 by the nested pass and nothing by the outer one.
C33_Witness ==
  /\ last.op = "update" /\ ~last.thrown
  /\ Len(last.passes) = 2
  /\ Len(subs) >= 2
  /\ subs[1].beh = "fixup" /\ seen[1] = <<1, 2>>
  /\ subs[2].beh = "rec" /\ subs[2].eq = "is" /\ seen[2] = <<2>>
  /\ last.passes[1].invoked = <<1, 2>>
  /\ last.passes[2].invoked = <<1, 2>>

\* ------------------------------------------------------------------- C34
\* The applier steps of cb and its direct steps
Applies(cb) == SelectSeq(cb, LAMBDA st : st.name # "direct")
Directs(cb) == SelectSeq(cb, LAMBDA st : st.name = "direct")

\* The contents the store holds after each of the first n direct steps of cb,
\* begun on o
RECURSIVE DirectContents(_, _, _)
DirectContents(cb, n, o) ==
  IF n = 0 THEN <<>>
  ELSE LET before == DirectContents(cb, n - 1, o)
           from == IF n = 1 THEN Content(o) ELSE before[n - 1]
           r == Directs(cb)[n].arg
       IN Append(before, [count |-> ReduceCount(r, from),
                          label |-> ReduceLabel(r, from)])

\* The contents of the values seen by subscriber id in this step
NewlySeen(id) ==
  [i \in 1..(Len(seen'[id]) - Len(seen[id])) |->
     Content(seen'[id][Len(seen[id]) + i])]

DirectWriteKeptOnThrow ==
  /\ last.op = "batch" /\ last.thrown
  /\ last.arg = <<Direct(Add(2)), Direct(Boom)>>
  /\ current["sa"].count = 2 /\ version["sa"] = 1

\* ------------------------------------------------- commit and other writers
\* The call just made is the commit of scope k
Commits(k) == last'.op = "tx.commit" /\ last'.arg = k

DirectUpdateOverwritten ==
  /\ last.op = "tx.commit" /\ last.arg = "outer"
  /\ ~tx["inner"].begun
  /\ tx["outer"].atBegin.version = 0 /\ tx["outer"].steps = <<SetLabel("x")>>
  /\ version["sa"] = 2
  /\ current["sa"].label = "x" /\ current["sa"].count = 0

\* ------------------------------------------------ a pass ended by a throw
\* The listeners the pass of this step reaches: all of them, or those up to
\* the first one whose subscriber throws
Reached ==
  LET ls == listeners[last'.store]
  IN IF FirstFailing > 0 THEN SubSeq(ls, 1, FirstFailing) ELSE ls

\* C36: a subscriber throwing during a notification pass does not undo the
\* mutation that started the pass: after the exception the store holds the
\* new value and the version is one up, and each listener the pass did not
\* reach keeps the prevSelected it had; in any pass, thrown or not, each
\* listener reached is invoked exactly when the new selection differs from
\* its prevSelected, so a listener skipped earlier fires on a later pass
\* that reaches it if its selection still differs.
C36_ThrowKeepsMutation ==
  [][Mutated =>
       LET s == last'.store
           ls == listeners[s]
           f == FirstFailing
       IN /\ last'.thrown =>
               /\ f > 0
               /\ last'.op = "set" => current'[s] = last'.arg
               /\ last'.op = "update" =>
                    Content(current'[s]) =
                      [count |-> ReduceCount(last'.arg, current[s]),
                       label |-> ReduceLabel(last'.arg, current[s])]
               /\ version'[s] = version[s] + 1
               /\ \A j \in (f + 1)..Len(ls) :
                    /\ subs'[ls[j]].prev = subs[ls[j]].prev
                    /\ NotInvoked(ls[j])
          /\ \A i \in 1..Len(Reached) :
               LET id == Reached[i]
                   next == Select(subs[id].sel, current'[s])
               IN IF subs[id].prev # next
                  THEN Delivered(id, next) /\ subs'[id].prev = next
                  ELSE NotInvoked(id)]_vars

\* A label subscriber threw on set({count: 1, label: "x"}), the count
\* subscriber behind it was skipped; the update that followed, adding 1 and
\* leaving the label, gave the count subscriber 2: both mutations are in the
\* store and in the version
C36_Witness ==
  /\ last.op = "update" /\ ~last.thrown
  /\ Len(subs) = 2 /\ listeners["sa"] = <<1, 2>>
  /\ subs[1].beh = "throw" /\ subs[1].sel = "label" /\ seen[1] = <<"x">>
  /\ subs[2].beh = "rec" /\ subs[2].sel = "count" /\ seen[2] = <<2>>
  /\ version["sa"] = 2
  /\ current["sa"].count = 2 /\ current["sa"].label = "x"

\* Just after the throw: the value written and counted, the skipped count
\* subscriber still at the selection it was subscribed with
SkippedKeepsPrev ==
  /\ last.op = "set" /\ last.thrown
  /\ Len(subs) = 2 /\ listeners["sa"] = <<1, 2>>
  /\ subs[1].beh = "throw" /\ subs[1].sel = "label" /\ seen[1] = <<"x">>
  /\ subs[2].sel = "count" /\ seen[2] = <<>> /\ subs[2].prev = 0
  /\ version["sa"] = 1 /\ current["sa"] = last.arg
  /\ current["sa"].count = 1

\* ------------------------------------- unsubscribing in a composite pass
\* Composite subscription cid is invoked by this step as its eq says: with
\* the new aggregate when eq(prev, new aggregate) is false, not at all
\* otherwise
CombInvokedAsDue(cid) ==
  IF ~Eq(comb.subs[cid].eq, comb.subs[cid].prev, comb'.current)
  THEN CombDelivered(cid, comb'.current)
  ELSE CombNotInvoked(cid)

\* C37: in a composite notification during which a composite subscriber
\* unsubscribes itself or another one, every other composite subscriber
\* registered when the notification started is still invoked, none is
\* skipped.
C37_NoneSkipped ==
  [][(/\ Replaced
      /\ comb.childUnsubs # <<>>
      /\ comb'.subscribers # comb.subscribers) =>
       \A i \in 1..Len(comb.subscribers) :
         comb.subs[comb.subscribers[i]].beh = "rec" =>
           CombInvokedAsDue(comb.subscribers[i])]_vars

\* The position in the composite's subscribers of the first one that calls
\* an unsubscribe handle in the notification of this step; 0 when none does
FirstUnsubscribing ==
  LET ss == comb.subscribers
      calling == {i \in 1..Len(ss) :
                    /\ comb.subs[ss[i]].beh # "rec"
                    /\ ~Eq(comb.subs[ss[i]].eq, comb.subs[ss[i]].prev,
                           comb'.current)}
  IN IF calling = {} THEN 0
     ELSE CHOOSE i \in calling : \A j \in calling : i <= j

\* The part of C37 the code keeps: the subscribers placed up to the first
\* one that calls an unsubscribe handle are invoked as due, and so is every
\* subscriber of a notification in which no handle is called.
InvokedUpToUnsubscribing ==
  [][(Replaced /\ comb.childUnsubs # <<>>) =>
       LET ss == comb.subscribers
           f == FirstUnsubscribing
       IN \A i \in 1..Len(ss) :
            (f = 0 \/ i <= f) => CombInvokedAsDue(ss[i])]_vars

\* Two composite subscribers, the first unsubscribing itself when invoked:
\* a member set invoked the first, which left, and passed over the second,
\* still registered and behind the aggregate
C37_Witness ==
  /\ last.op = "set" /\ ~last.thrown
  /\ Len(comb.subs) = 2
  /\ comb.subs[1].beh = "unsubSelf" /\ comb.seen[1] = <<comb.current>>
  /\ comb.subs[2].beh = "rec" /\ comb.subs[2].eq = "is"
  /\ comb.subscribers = <<2>>
  /\ comb.seen[2] = <<>>
  /\ comb.subs[2].prev # comb.current

\* -------------------------------------------------- the history's pointer
\* -1 <= pointer <= size - 1, pointer = -1 exactly when size = 0, and
\* size <= limit
PointerInRange ==
  /\ -1 <= hist.idx /\ hist.idx <= Len(hist.items) - 1
  /\ (hist.idx = -1) <=> (Len(hist.items) = 0)
  /\ Len(hist.items) <= hist.limit

\* This step appends an entry to a history that is full, its pointer at the
\* last entry
Overflows ==
  /\ last'.op = "history.record" \/ last'.op = "update"
  /\ hist'.items # hist.items
  /\ Len(hist.items) = hist.limit /\ hist.idx = Len(hist.items) - 1

\* C38: whatever record, undo, redo, jumpTo and clear calls and store
\* mutations have been made, -1 <= pointer <= size - 1, the pointer is -1
\* exactly when there is no entry, and size <= limit (limit >= 1); a record
\* that would pass the limit drops the oldest entry and leaves the pointer on
\* the newest one.
C38_PointerInRange ==
  [][/\ PointerInRange
     /\ PointerInRange'
     /\ Overflows =>
          /\ hist'.items = Append(Tail(hist.items), current'["sa"])
          /\ hist'.idx = hist.limit - 1]_vars

\* A history of limit 2 holding the last two of three recorded states, the
\* pointer on the newest
C38_Witness ==
  /\ hist.made /\ hist.limit = 2 /\ last.op = "update"
  /\ Len(hist.trail) = 3
  /\ Len(hist.items) = 2 /\ hist.idx = 1
  /\ hist.items[2] = current["sa"] /\ current["sa"].count = 2
  /\ hist.items[1].count = 1

\* clear() on a history with entries: no entry, the pointer at -1
ClearedHistory ==
  /\ last.op = "history.clear" /\ Len(hist.trail) >= 3
  /\ hist.trail[Len(hist.trail)].at >= 1
  /\ hist.items = <<>> /\ hist.idx = -1

\* ------------------------------------------------ the history's suppress
\* The call just made is an undo, a redo or a jumpTo
MoveCall ==
  \/ last'.op = "history.undo" \/ last'.op = "history.redo"
  \/ last'.op = "history.jumpTo"

\* C39: suppress is true only while an undo/redo/jumpTo is executing: once
\* such a call has returned or thrown, suppress is false again, and so an
\* attached history records every later mutation of the store.
C39_SuppressOnlyDuringMove ==
  [][/\ MoveCall => ~hist'.suppress
     /\ (last'.op = "update" /\ hist.unsub # 0
           /\ current'["sa"] # current["sa"]) =>
          /\ hist'.idx = Len(hist'.items) - 1
          /\ hist'.items[Len(hist'.items)] = current'["sa"]]_vars

\* The part of C39 the code keeps: suppress is false after every undo, redo
\* and jumpTo that sets the store and returns (one that returns undefined
\* leaves it as it was), it goes up only in one that throws, and as long as
\* it is down an attached history records every mutation.
SuppressDownUnlessThrown ==
  [][/\ (MoveCall /\ ~last'.thrown) =>
          IF last'.ret = NoRet THEN hist'.suppress = hist.suppress
          ELSE ~hist'.suppress
     /\ (hist'.suppress /\ ~hist.suppress) => (MoveCall /\ last'.thrown)
     /\ (last'.op = "update" /\ hist.unsub # 0 /\ ~hist.suppress
           /\ current'["sa"] # current["sa"]) =>
          /\ hist'.idx = Len(hist'.items) - 1
          /\ hist'.items[Len(hist'.items)] = current'["sa"]]_vars

\* An attached history and a store subscriber on the label that throws: an
\* undo back over a change of label threw out of store.set and left suppress
\* up; the update that followed returned and was not recorded
C39_Witness ==
  /\ last.op = "update" /\ ~last.thrown
  /\ hist.made /\ hist.unsub # 0 /\ hist.suppress
  /\ Len(hist.trail) = 4 /\ hist.trail[3].op = "history.undo"
  /\ hist.idx = 0 /\ Len(hist.items) = 2
  /\ \A i \in 1..Len(hist.items) : hist.items[i] # current["sa"]
  /\ current["sa"].count = 1

\* --------------------------------------------------------- writes to a file
\* persistFs is attached, some write was started and every started write has
\* completed
AllWritten ==
  persist.made /\ persist.writes >= 1 /\ persist.pending = <<>>

\* C40: with persistFs attached, once every started write has completed the
\* file holds encode of the store's latest value: the writes started for
\* successive mutations do not complete out of order.
C40_FileHoldsLatest ==
  AllWritten => (persist.inOrder /\ persist.entry = Encode(current["sa"]))

\* The part of C40 the code keeps: when the writes have completed in the
\* order they were started, the file holds encode of the latest value.
InOrderFileHoldsLatest ==
  (AllWritten /\ persist.inOrder) => persist.entry = Encode(current["sa"])

\* Two updates, two writes started; the second completed first, then the
\* first: every write has completed and the file holds the older state
C40_Witness ==
  /\ AllWritten /\ persist.writes = 2 /\ ~persist.inOrder
  /\ last.op = "fs.writeFile"
  /\ current["sa"].count = 2
  /\ persist.entry = [ok |-> TRUE, count |-> 1, label |-> "init"]

====
